---- MODULE Spec2Model ----
(***************************************************************************)
(* The anomaly view of the admin portal (src/unnamed/part_001, the second  *)
(* <script setup> block) and the helpers it imports from                   *)
(* src/src/composables/useDataQuality.js.                                  *)
(*                                                                         *)
(* Numbers are rationals [t |-> "num", n, d] in lowest terms with d > 0.    *)
(* A result is exact as long as its denominator is at most Precision and   *)
(* is rounded down to the grid 1/Precision beyond: the finite precision of *)
(* a double, at the scale of the model.  null, undefined and NaN are       *)
(* values of their own, so that the difference between `=== null`, `??`,   *)
(* `!x` and isNaN is kept.                                                 *)
(***************************************************************************)
EXTENDS Integers, Sequences, FiniteSets, TLC

\* ------------------------------------------------------------------ values

Null == [t |-> "null"]
Undefined == [t |-> "undefined"]
NaN == [t |-> "NaN"]

Abs(i) == IF i < 0 THEN -i ELSE i

RECURSIVE Gcd(_, _)
Gcd(a, b) == IF b = 0 THEN a ELSE Gcd(b, a % b)

\* Largest denominator a number is kept exact with.
Precision == 720

\* q + r/d (0 <= r < d, d > Precision) rounded down to the grid 1/Precision.
OnGrid(q, r, d) ==
    LET k == IF d <= 2000000 THEN (r * Precision) \div d
             ELSE r \div ((d \div Precision) + 1)
        g == Gcd(k, Precision)
    IN  [t |-> "num", n |-> q * (Precision \div g) + (k \div g),
         d |-> Precision \div g]

\* The number n/d (d # 0).
Num(n, d) ==
    LET g == Gcd(Abs(n), Abs(d))
        s == IF d < 0 THEN -1 ELSE 1
        nn == s * (n \div g)
        dd == s * (d \div g)
    IN  IF dd <= Precision THEN [t |-> "num", n |-> nn, d |-> dd]
        ELSE OnGrid(nn \div dd, nn % dd, dd)

I(k) == [t |-> "num", n |-> k, d |-> 1]

IsNum(v) == v.t = "num"

\* The operations divide by the common factors before they multiply, so that
\* the intermediate products stay small.
RNeg(a) == [t |-> "num", n |-> 0 - a.n, d |-> a.d]
RInv(a) == [t |-> "num", n |-> IF a.n < 0 THEN 0 - a.d ELSE a.d, d |-> Abs(a.n)]
RAdd(a, b) ==
    IF a.n = 0 THEN b
    ELSE IF b.n = 0 THEN a
    ELSE LET g == Gcd(a.d, b.d)
         IN  Num(a.n * (b.d \div g) + b.n * (a.d \div g), (a.d \div g) * b.d)
RSub(a, b) == RAdd(a, RNeg(b))
RMul(a, b) ==
    IF a.n = 0 \/ b.n = 0 THEN [t |-> "num", n |-> 0, d |-> 1]
    ELSE LET g1 == Gcd(Abs(a.n), b.d)
             g2 == Gcd(Abs(b.n), a.d)
         IN  Num((a.n \div g1) * (b.n \div g2), (a.d \div g2) * (b.d \div g1))
RDiv(a, b) == RMul(a, RInv(b))
RLt(a, b) ==
    LET g == Gcd(a.d, b.d)
    IN  a.n * (b.d \div g) < b.n * (a.d \div g)
RLe(a, b) == ~RLt(b, a)
RAbs(a) == [t |-> "num", n |-> Abs(a.n), d |-> a.d]
RMax(a, b) == IF RLt(a, b) THEN b ELSE a
RMin(a, b) == IF RLt(b, a) THEN b ELSE a

\* The sum of a sequence of numbers (a reduce((a, b) => a + b, 0)), added
\* pairwise.
RECURSIVE SumBetween(_, _, _)
SumBetween(s, lo, hi) ==
    IF lo > hi THEN I(0)
    ELSE IF lo = hi THEN s[lo]
    ELSE LET m == (lo + hi) \div 2
         IN  RAdd(SumBetween(s, lo, m), SumBetween(s, m + 1, hi))

SeqSum(seq) ==
    LET s == seq \o << >>
    IN  SumBetween(s, 1, Len(s))

\* Largest k with k * k <= x, for x >= 0.
ISqrt(x) == CHOOSE k \in 0 .. x : k * k <= x /\ (k + 1) * (k + 1) > x

\* Denominator of the grid a square root that is not rational is rounded to.
SqrtGrid == 16

\* Math.sqrt: exact on the squares of rationals, else rounded down to the grid.
MathSqrt(a) ==
    LET sn == ISqrt(a.n)
        sd == ISqrt(a.d)
    IN  IF sn * sn = a.n /\ sd * sd = a.d
        THEN Num(sn, sd)
        ELSE Num(ISqrt((a.n * SqrtGrid * SqrtGrid) \div a.d), SqrtGrid)

\* Math.round on a rational: floor(x + 1/2).
MathRound(a) == I((2 * a.n + a.d) \div (2 * a.d))

\* ---- JavaScript coercions the view relies on

\* !v
Falsy(v) ==
    \/ v.t \in {"null", "undefined", "NaN"}
    \/ (v.t = "num" /\ v.n = 0)
    \/ (v.t = "chars" /\ Len(v.c) = 0)

\* ToNumber(v) for the operands of - and /
ToNumber(v) ==
    CASE v.t = "num" -> v
      [] v.t = "null" -> I(0)
      [] OTHER -> NaN

JsSub(a, b) ==
    LET x == ToNumber(a)
        y == ToNumber(b)
    IN  IF IsNum(x) /\ IsNum(y) THEN RSub(x, y) ELSE NaN

\* x / y; a zero divisor is reported as NaN (the view guards every division
\* whose divisor can be zero).
JsDiv(a, b) ==
    LET x == ToNumber(a)
        y == ToNumber(b)
    IN  IF IsNum(x) /\ IsNum(y) /\ y.n # 0 THEN RDiv(x, y) ELSE NaN

\* isNaN(v): ToNumber(v) is NaN
IsNaN(v) == ~IsNum(ToNumber(v))

\* v ?? null
OrNull(v) == IF v.t \in {"null", "undefined"} THEN Null ELSE v

\* ------------------------------------------- useDataQuality.js helpers

\* A string, as the sequence of its characters.
Chars(c) == [t |-> "chars", c |-> c]

Digits == << "0", "1", "2", "3", "4", "5", "6", "7", "8", "9" >>

\* String(n) for an integer n >= 0
RECURSIVE DigitsOf(_)
DigitsOf(n) ==
    IF n < 10 THEN << Digits[n + 1] >>
    ELSE DigitsOf(n \div 10) \o << Digits[(n % 10) + 1] >>

\* String(n).padStart(2, '0')
PadStart2(n) ==
    LET d == DigitsOf(n)
    IN  IF Len(d) < 2 THEN << "0" >> \o d ELSE d

\* A TIME string "HH:MM" of the database.
Time(h, m) == Chars(PadStart2(h) \o << ":" >> \o PadStart2(m))

\* A JavaScript array of numbers; a[h] of the source is a.a[h + 1] here.
Arr(s) == [t |-> "arr", a |-> s]

\* a[i] || 0 for an array a and a 0-based index i (undefined past the end).
ElemOr0(a, i) == IF i + 1 \in DOMAIN a.a THEN a.a[i + 1] ELSE I(0)

\* The index of the first colon of c from index i on, Len(c) + 1 without one.
RECURSIVE FirstColon(_, _)
FirstColon(c, i) ==
    IF i > Len(c) \/ c[i] = ":" THEN i ELSE FirstColon(c, i + 1)

\* time.split(':'): the parts between the colons
RECURSIVE Split(_)
Split(c) ==
    LET k == FirstColon(c, 1)
    IN  IF k > Len(c) THEN << c >>
        ELSE << SubSeq(c, 1, k - 1) >> \o Split(SubSeq(c, k + 1, Len(c)))

\* The value of a digit, -1 for any other character.
DigitVal(ch) ==
    CASE ch = "0" -> 0 [] ch = "1" -> 1 [] ch = "2" -> 2 [] ch = "3" -> 3
      [] ch = "4" -> 4 [] ch = "5" -> 5 [] ch = "6" -> 6 [] ch = "7" -> 7
      [] ch = "8" -> 8 [] ch = "9" -> 9 [] OTHER -> -1

IsDigit(ch) == DigitVal(ch) >= 0

\* The value of the run of digits of c from index i on, read after the
\* value acc.
RECURSIVE ReadDigits(_, _, _)
ReadDigits(c, i, acc) ==
    IF i > Len(c) \/ ~IsDigit(c[i]) THEN acc
    ELSE ReadDigits(c, i + 1, 10 * acc + DigitVal(c[i]))

\* parseInt(part): the leading digits, NaN without any (or without the part)
ParseInt(parts, i) ==
    IF i \in DOMAIN parts /\ Len(parts[i]) > 0 /\ IsDigit(parts[i][1])
    THEN I(ReadDigits(parts[i], 1, 0))
    ELSE NaN

timeToMinutes(time) ==
    IF Falsy(time) THEN I(0)
    ELSE LET parts == Split(time.c)
             hours == ParseInt(parts, 1)
             minutes == ParseInt(parts, 2)
         IN  IF IsNum(hours) /\ IsNum(minutes)
             THEN RAdd(RMul(hours, I(60)), minutes)
             ELSE NaN

\* Math.floor
MathFloor(a) == I(a.n \div a.d)

\* formatMinutesToTime without the padStart(2, '0').
formatMinutesUnpadded(minutes) ==
    IF minutes = Null \/ minutes = Undefined THEN Null
    ELSE LET h == MathFloor(RDiv(minutes, I(60)))
             m == MathRound(RSub(minutes, RMul(I(60), h)))
         IN  Chars(DigitsOf(h.n) \o << ":" >> \o DigitsOf(m.n))

formatMinutesToTime(minutes) ==
    IF minutes = Null \/ minutes = Undefined THEN Null
    ELSE LET h == MathFloor(RDiv(minutes, I(60)))
             m == MathRound(RSub(minutes, RMul(I(60), h)))
         IN  Chars(PadStart2(h.n) \o << ":" >> \o PadStart2(m.n))

\* The loop with "h < endHour".
SumRangeExclusive(a, startHour, endHour) ==
    SeqSum([i \in 1 .. (endHour - startHour) |-> ElemOr0(a, startHour + i - 1)])

\* for (h = startHour; h <= endHour; h++) sum += a[h] || 0
SumRange(a, startHour, endHour) ==
    SeqSum([i \in 1 .. (endHour - startHour + 1) |-> ElemOr0(a, startHour + i - 1)])

sumEventsInRange(eventsPerHour, startHour, endHour) ==
    IF Falsy(eventsPerHour) \/ Len(eventsPerHour.a) < 24
    THEN I(0)
    ELSE SumRange(eventsPerHour, startHour, endHour)

\* sum over i < a.length of (a[i] || 0) * (b[i] || 0)
Dot(a, b) ==
    SeqSum([i \in 1 .. Len(a.a) |-> RMul(ElemOr0(a, i - 1), ElemOr0(b, i - 1))])

cosineSimilarity(a, b) ==
    IF Falsy(a) \/ Falsy(b) \/ Len(a.a) # Len(b.a) THEN I(0)
    ELSE LET dotProduct == Dot(a, b)
             normA == Dot(a, a)
             normB == Dot(b, b)
         IN  IF normA.n = 0 \/ normB.n = 0 THEN I(0)
             ELSE RDiv(dotProduct, RMul(MathSqrt(normA), MathSqrt(normB)))

\* awakeDuration without the Math.max(0, ...).
awakeDurationSigned(firstActivity, lastActivity) ==
    IF Falsy(firstActivity) \/ Falsy(lastActivity) THEN Null
    ELSE LET first == timeToMinutes(firstActivity)
             last == timeToMinutes(lastActivity)
         IN  IF first = I(0) /\ last = I(0) THEN Null
             ELSE IF IsNum(first) /\ IsNum(last)
                  THEN RSub(last, first)
                  ELSE NaN

awakeDuration(firstActivity, lastActivity) ==
    IF Falsy(firstActivity) \/ Falsy(lastActivity) THEN Null
    ELSE LET first == timeToMinutes(firstActivity)
             last == timeToMinutes(lastActivity)
         IN  IF first = I(0) /\ last = I(0) THEN Null
             ELSE IF IsNum(first) /\ IsNum(last)
                  THEN RMax(I(0), RSub(last, first))
                  ELSE NaN

\* avg(arr)
avg(arr) ==
    IF Falsy(arr) \/ Len(arr.a) = 0 THEN Null
    ELSE RDiv(SeqSum(arr.a), I(Len(arr.a)))

\* stddev with the squared differences divided by length - 1.
stddevSample(arr) ==
    IF Falsy(arr) \/ Len(arr.a) < 2 THEN I(1)
    ELSE LET mean == avg(arr)
             squareDiffs == [i \in DOMAIN arr.a |->
                                RMul(RSub(arr.a[i], mean), RSub(arr.a[i], mean))]
             root == MathSqrt(RDiv(SeqSum(squareDiffs), I(Len(arr.a) - 1)))
         IN  IF Falsy(root) THEN I(1) ELSE root

\* stddev(arr)
stddev(arr) ==
    IF Falsy(arr) \/ Len(arr.a) < 2 THEN I(1)
    ELSE LET mean == avg(arr)
             squareDiffs == [i \in DOMAIN arr.a |->
                                RMul(RSub(arr.a[i], mean), RSub(arr.a[i], mean))]
             root == MathSqrt(avg(Arr(squareDiffs)))
         IN  IF Falsy(root) THEN I(1) ELSE root

DAY_START_HOUR == 5

\* The first loop without the follow-up condition.
RECURSIVE FirstClusterNoFollowUp(_, _)
FirstClusterNoFollowUp(eventsPerHour, h) ==
    IF h >= 12 THEN -1
    ELSE IF RLe(I(2), ElemOr0(eventsPerHour, h)) THEN h
         ELSE FirstClusterNoFollowUp(eventsPerHour, h + 1)

\* The first loop of calculateDayStart from hour h on: the first hour below
\* 12 with at least 2 events and a follow-up, or -1.
RECURSIVE FirstCluster(_, _)
FirstCluster(eventsPerHour, h) ==
    IF h >= 12 THEN -1
    ELSE IF /\ RLe(I(2), ElemOr0(eventsPerHour, h))
            /\ \/ RLt(I(0), ElemOr0(eventsPerHour, h + 1))
               \/ RLt(I(0), ElemOr0(eventsPerHour, h + 2))
         THEN h
         ELSE FirstCluster(eventsPerHour, h + 1)

\* The second loop from hour h on: the first hour with any event, or -1.
RECURSIVE FirstActive(_, _)
FirstActive(eventsPerHour, h) ==
    IF h >= 24 THEN -1
    ELSE IF RLt(I(0), ElemOr0(eventsPerHour, h)) THEN h
         ELSE FirstActive(eventsPerHour, h + 1)

calculateDayStart(eventsPerHour) ==
    IF Falsy(eventsPerHour) \/ Len(eventsPerHour.a) < 24 THEN Null
    ELSE LET cluster == FirstCluster(eventsPerHour, DAY_START_HOUR)
             active == FirstActive(eventsPerHour, DAY_START_HOUR)
         IN  IF cluster >= 0 THEN I(cluster * 60)
             ELSE IF active >= 0 THEN I(active * 60)
             ELSE Null

\* ------------------------------------------------- the feature catalog

Feature(key, weight10, isTime, isRoomFeature) ==
    [key |-> key, weight |-> Num(weight10, 10), isTime |-> isTime,
     isRoomFeature |-> isRoomFeature]

\* featureGroups.flatMap(g => g.features), in catalog order.
allFeatures ==
    << Feature("first_activity", 10, TRUE, FALSE),
       Feature("last_activity", 10, TRUE, FALSE),
       Feature("awake_duration", 8, FALSE, FALSE),
       Feature("total_events", 10, FALSE, FALSE),
       Feature("active_hours", 10, FALSE, FALSE),
       Feature("morning_events", 8, FALSE, FALSE),
       Feature("afternoon_events", 8, FALSE, FALSE),
       Feature("evening_events", 8, FALSE, FALSE),
       Feature("longest_gap_minutes", 12, FALSE, FALSE),
       Feature("night_events", 10, FALSE, FALSE),
       Feature("night_active_hours", 8, FALSE, FALSE),
       Feature("rooms_active", 8, FALSE, FALSE),
       Feature("room_ratio", 6, FALSE, TRUE),
       Feature("main_room_pct", 6, FALSE, TRUE),
       Feature("motion_events", 8, FALSE, FALSE),
       Feature("door_events", 8, FALSE, FALSE),
       Feature("transition_count", 6, FALSE, TRUE),
       Feature("activity_regularity", 6, FALSE, FALSE) >>

FeatureKeys == {allFeatures[i].key : i \in DOMAIN allFeatures}

ScalarKeys ==
    {"total_events", "active_hours", "longest_gap_minutes", "night_events",
     "night_active_hours", "rooms_active", "motion_events", "door_events"}

\* ------------------------------------------------- room-row features

\* A row of room_activity_hourly: hour is <<date, hour of day>>, the order
\* of the ISO timestamp strings.
RoomRow(room, date, h, total) ==
    [room_name |-> room, hour |-> <<date, h>>, total_events |-> total]

HourBefore(h1, h2) == h1[1] < h2[1] \/ (h1[1] = h2[1] /\ h1[2] < h2[2])

RECURSIVE SeqMax(_)
SeqMax(s) == IF Len(s) = 1 THEN s[1] ELSE RMax(s[1], SeqMax(Tail(s)))

\* The first element in place of the least.
SeqFirst(s) == s[1]

RECURSIVE SeqMin(_)
SeqMin(s) == IF Len(s) = 1 THEN s[1] ELSE RMin(s[1], SeqMin(Tail(s)))

\* The hour keys of a set, ascending (Object.keys(hourGroups).sort()).
RECURSIVE SortHours(_)
SortHours(S) ==
    IF S = {} THEN <<>>
    ELSE LET m == CHOOSE e \in S : \A o \in S \ {e} : HourBefore(e, o)
         IN  <<m>> \o SortHours(S \ {m})

\* roomTotals[name]: the events of one room over the rows.
RoomTotal(rows, name) ==
    LET own == SelectSeq(rows, LAMBDA r : r.room_name = name)
    IN  SeqSum([i \in DOMAIN own |-> I(own[i].total_events)])

computeMainRoomPct(roomData) ==
    IF Falsy(roomData) \/ Len(roomData.a) = 0 THEN Null
    ELSE LET names == {roomData.a[i].room_name : i \in DOMAIN roomData.a}
             top == CHOOSE p \in names : \A q \in names :
                        RLe(RoomTotal(roomData.a, q), RoomTotal(roomData.a, p))
             maxRoom == RoomTotal(roomData.a, top)
             totalAll == SeqSum([i \in DOMAIN roomData.a |->
                                    I(roomData.a[i].total_events)])
         IN  IF totalAll.n = 0 THEN Null
             ELSE MathRound(RMul(RDiv(maxRoom, totalAll), I(100)))

\* The room of the last row of one hour group that has events at all.
RECURSIVE LastEventful(_, _, _, _)
LastEventful(rows, i, maxRoom, maxEvents) ==
    IF i > Len(rows) THEN maxRoom
    ELSE IF rows[i].total_events > 0
         THEN LastEventful(rows, i + 1, rows[i].room_name, rows[i].total_events)
         ELSE LastEventful(rows, i + 1, maxRoom, maxEvents)

\* The room of the first row of one hour group whose total_events exceeds
\* every earlier row's; null when no row has events.
RECURSIVE DominantFrom(_, _, _, _)
DominantFrom(rows, i, maxRoom, maxEvents) ==
    IF i > Len(rows) THEN maxRoom
    ELSE IF rows[i].total_events > maxEvents
         THEN DominantFrom(rows, i + 1, rows[i].room_name, rows[i].total_events)
         ELSE DominantFrom(rows, i + 1, maxRoom, maxEvents)

RECURSIVE CountChanges(_)
CountChanges(s) ==
    IF Len(s) < 2 THEN 0
    ELSE (IF s[2] # s[1] THEN 1 ELSE 0) + CountChanges(Tail(s))

computeTransitionCount(roomData) ==
    IF Falsy(roomData) \/ Len(roomData.a) = 0 THEN Null
    ELSE LET hours == {roomData.a[i].hour : i \in DOMAIN roomData.a}
             hourKeys == SortHours(hours)
             dominant == [i \in DOMAIN hourKeys |->
                 DominantFrom(SelectSeq(roomData.a,
                                        LAMBDA r : r.hour = hourKeys[i]),
                              1, "", 0)]
             dominantRooms == SelectSeq(dominant, LAMBDA r : r # "")
         IN  I(CountChanges(dominantRooms))

\* A JavaScript object with computed keys; a missing key reads as undefined.
Obj(f) == [t |-> "obj", f |-> f]
Prop(o, k) == IF k \in DOMAIN o.f THEN o.f[k] ELSE Undefined

\* ------------------------------------------- the external data source

\* Number of calendar dates the data source knows; the last one is today.
NumDates == 3

\* loadBaselineStats: fourteenDaysAgo.setDate(getDate() - 14)
BaselineDays == 14

Dates == 1 .. NumDates
Today == NumDates

\* What the tables hold for one date: no record, or one of four records.
DayChoices == {"none", "lo", "hi", "mix", "thin"}

Hours(f) == Arr([h \in 1 .. 24 |-> I(IF h - 1 \in DOMAIN f THEN f[h - 1] ELSE 0)])

\* events_per_hour of the records: 3 events at 07h and 4 at 13h, or 12 at 19h.
EphLo == Hours(7 :> 3 @@ 13 :> 4)
EphHi == Hours(19 :> 12)

Record(date, eph, te, ah, gap, ne, nah, ra, rav, me, de, fa, la) ==
    [date |-> date, events_per_hour |-> eph, total_events |-> te,
     active_hours |-> ah, longest_gap_minutes |-> gap, night_events |-> ne,
     night_active_hours |-> nah, rooms_active |-> ra, rooms_available |-> rav,
     motion_events |-> me, door_events |-> de,
     first_activity |-> fa, last_activity |-> la]

\* The daily_activity_stats row of a date (null when there is none).
\*   lo, hi : two full days of a three-room household, every feature differing
\*   mix    : a full day without rooms_available and without room rows
\*   thin   : a day of a one-room household with only the room fields set
\* first_activity and last_activity of the records.
FirstLo == Time(6, 0)
LastLo == Time(22, 0)
FirstHi == Time(6, 4)
LastHi == Time(22, 8)
FirstMix == Time(6, 10)
LastMix == Time(22, 4)

DayRecord(choice, date) ==
    CASE choice = "lo" ->
           Record(date, EphLo, I(20), I(8), I(60), I(2), I(1), I(1), I(3),
                  I(10), I(5), FirstLo, LastLo)
      [] choice = "hi" ->
           Record(date, EphHi, I(24), I(12), I(64), I(6), I(5), I(3), I(3),
                  I(14), I(9), FirstHi, LastHi)
      [] choice = "mix" ->
           Record(date, EphLo, I(26), I(13), I(68), I(6), I(3), I(2), Null,
                  I(10), I(1), FirstMix, LastMix)
      [] choice = "thin" ->
           Record(date, Null, Null, Null, Null, Null, Null, I(1), I(1),
                  Null, Null, Null, Null)
      [] OTHER -> Null

\* The room_activity_hourly rows of a date, in table order.
DayRooms(choice, date) ==
    CASE choice = "lo" ->
           << RoomRow("living", date, 7, 3), RoomRow("kitchen", date, 13, 4) >>
      [] choice = "hi" -> << RoomRow("living", date, 19, 12) >>
      [] choice = "thin" -> << RoomRow("living", date, 9, 5) >>
      [] OTHER -> << >>

VARIABLES
    db,                         \* the tables: date -> day choice
    mounted,                    \* onMounted has run
    selectedDate,
    loading,
    error,
    dayStats,
    baselineStats,
    roomHourlyData,
    baselineRoomByDate,
    baselineAvgHourlyPattern,
    run,                        \* the loadAllData call in progress
    earlier,                    \* the loadAllData call before it, if in flight
    call,                       \* the last call of a helper on its own
    tickets,                    \* store.tickets
    ticketLocalToUuid,          \* local id -> UUID of the server's row
    projectUuid,
    now,                        \* Date.now()
    requests,                   \* the requests on their way to the server
    remote,                     \* the server's projects and tickets tables
    chain,                      \* what getTicketChain just returned
    initialData,                \* the built-in project plan object
    job                         \* the importData or resetData call in progress

storeVars ==
    << tickets, ticketLocalToUuid, projectUuid, now, requests, remote, chain,
       initialData, job >>

viewVars ==
    << db, mounted, selectedDate, loading, error, dayStats, baselineStats,
       roomHourlyData, baselineRoomByDate, baselineAvgHourlyPattern, run,
       earlier, call >>

vars == << viewVars, storeVars >>

\* ------------------------------------------------- feature extraction

\* The active features with "rooms_available >= 1" for the room features.
ActiveForAtLeastOne(ds) ==
    LET roomsAvailable ==
            IF ds = Null \/ Falsy(ds.rooms_available) THEN I(0)
            ELSE ds.rooms_available
    IN  SelectSeq(allFeatures,
                  LAMBDA f : IF f.isRoomFeature THEN RLe(I(1), roomsAvailable)
                             ELSE TRUE)

\* const activeFeatures = computed(...)
ActiveFor(ds) ==
    LET roomsAvailable ==
            IF ds = Null \/ Falsy(ds.rooms_available) THEN I(0)
            ELSE ds.rooms_available
    IN  SelectSeq(allFeatures,
                  LAMBDA f : IF f.isRoomFeature THEN RLt(I(1), roomsAvailable)
                             ELSE TRUE)

activeFeatures == ActiveFor(dayStats)

RoomRatio(day) ==
    IF Falsy(day.rooms_available) \/ day.rooms_available = I(0) THEN Null
    ELSE JsDiv(day.rooms_active, day.rooms_available)

Regularity(day, pattern) ==
    IF Falsy(day.events_per_hour) \/ Falsy(pattern) THEN Null
    ELSE cosineSimilarity(day.events_per_hour, pattern)

TodayValue(feature, ds, roomData, pattern) ==
    IF ds = Null THEN Null
    ELSE CASE feature.key \in {"first_activity", "last_activity"} ->
                timeToMinutes(ds[feature.key])
           [] feature.key \in ScalarKeys -> OrNull(ds[feature.key])
           [] feature.key = "morning_events" ->
                sumEventsInRange(ds.events_per_hour, 6, 11)
           [] feature.key = "afternoon_events" ->
                sumEventsInRange(ds.events_per_hour, 12, 17)
           [] feature.key = "evening_events" ->
                sumEventsInRange(ds.events_per_hour, 18, 22)
           [] feature.key = "awake_duration" ->
                awakeDuration(ds.first_activity, ds.last_activity)
           [] feature.key = "room_ratio" -> RoomRatio(ds)
           [] feature.key = "main_room_pct" -> computeMainRoomPct(roomData)
           [] feature.key = "transition_count" -> computeTransitionCount(roomData)
           [] feature.key = "activity_regularity" -> Regularity(ds, pattern)
           [] OTHER -> Null

getTodayValue(feature) ==
    TodayValue(feature, dayStats, roomHourlyData, baselineAvgHourlyPattern)

\* getHistoricalValue(feature, day, roomData); pattern is the value of
\* baselineAvgHourlyPattern at the time of the call.
getHistoricalValue(feature, day, roomData, pattern) ==
    CASE feature.key \in {"first_activity", "last_activity"} ->
           LET v == timeToMinutes(day[feature.key])
           IN  IF v = I(0) /\ Falsy(day[feature.key]) THEN Null ELSE v
      [] feature.key \in ScalarKeys -> OrNull(day[feature.key])
      [] feature.key = "morning_events" ->
           sumEventsInRange(day.events_per_hour, 6, 11)
      [] feature.key = "afternoon_events" ->
           sumEventsInRange(day.events_per_hour, 12, 17)
      [] feature.key = "evening_events" ->
           sumEventsInRange(day.events_per_hour, 18, 22)
      [] feature.key = "awake_duration" ->
           awakeDuration(day.first_activity, day.last_activity)
      [] feature.key = "room_ratio" -> RoomRatio(day)
      [] feature.key = "main_room_pct" -> computeMainRoomPct(roomData)
      [] feature.key = "transition_count" -> computeTransitionCount(roomData)
      [] feature.key = "activity_regularity" -> Regularity(day, pattern)
      [] OTHER -> Null

\* ------------------------------------------------- score

calculateZScore(value, mean, sd) ==
    IF sd = I(0) \/ sd = Null \/ value = Null \/ mean = Null THEN I(0)
    ELSE JsDiv(JsSub(value, mean), sd)

\* `avg_${key}` / `avg_${key}_minutes` and the like.
StatKey(prefix, feature) ==
    <<prefix, feature.key, IF feature.isTime THEN "_minutes" ELSE "">>

\* The severity with ">=" at the two bounds.
SeverityInclusive(zScore) ==
    IF IsNum(zScore) /\ RLe(I(2), RAbs(zScore)) THEN "high"
    ELSE IF IsNum(zScore) /\ RLe(I(1), RAbs(zScore)) THEN "medium"
    ELSE "low"

\* absZ > 2 ? 'high' : absZ > 1 ? 'medium' : 'low'; a comparison with NaN is false.
Severity(zScore) ==
    IF IsNum(zScore) /\ RLt(I(2), RAbs(zScore)) THEN "high"
    ELSE IF IsNum(zScore) /\ RLt(I(1), RAbs(zScore)) THEN "medium"
    ELSE "low"

ScoreRow(feature, stats) ==
    LET todayValue == getTodayValue(feature)
        baselineValue == Prop(stats, StatKey("avg", feature))
        stddevValue == Prop(stats, StatKey("std", feature))
        zScore == calculateZScore(todayValue, baselineValue, stddevValue)
    IN  [key |-> feature.key, weight |-> feature.weight,
         todayValue |-> todayValue, baselineValue |-> baselineValue,
         stddev |-> stddevValue, zScore |-> zScore,
         severity |-> Severity(zScore)]

\* const scoreBreakdown = computed(...)
scoreBreakdown ==
    IF dayStats = Null \/ baselineStats = Null THEN << >>
    ELSE LET act == activeFeatures
         IN  [i \in DOMAIN act |-> ScoreRow(act[i], baselineStats)]

\* scoreBreakdown.value.filter(s => s.zScore !== null && !isNaN(s.zScore))
ValidOf(rows) == SelectSeq(rows, LAMBDA s : s.zScore # Null /\ ~IsNaN(s.zScore))

validScores == ValidOf(scoreBreakdown)

\* The aggregate with a plain average of |z| in place of the weighted one.
AggregateOfUnweighted(rows) ==
    IF Len(rows) = 0 THEN I(0)
    ELSE LET maxAbsZ == SeqMax([i \in DOMAIN rows |-> RAbs(rows[i].zScore)])
             avgZ == RDiv(SeqSum([i \in DOMAIN rows |-> RAbs(rows[i].zScore)]),
                          I(Len(rows)))
         IN  RMin(I(1), RDiv(RAdd(RMul(Num(6, 10), maxAbsZ),
                                  RMul(Num(4, 10), avgZ)), I(3)))

\* The aggregate divided by 2 instead of 3.
AggregateOfHalved(rows) ==
    IF Len(rows) = 0 THEN I(0)
    ELSE LET maxAbsZ == SeqMax([i \in DOMAIN rows |-> RAbs(rows[i].zScore)])
             totalWeight == SeqSum([i \in DOMAIN rows |-> rows[i].weight])
             weightedAvgZ ==
                 RDiv(SeqSum([i \in DOMAIN rows |->
                                 RMul(RAbs(rows[i].zScore), rows[i].weight)]),
                      totalWeight)
         IN  RMin(I(1), RDiv(RAdd(RMul(Num(6, 10), maxAbsZ),
                                  RMul(Num(4, 10), weightedAvgZ)), I(2)))

AggregateOf(rows) ==
    IF Len(rows) = 0 THEN I(0)
    ELSE LET maxAbsZ == SeqMax([i \in DOMAIN rows |-> RAbs(rows[i].zScore)])
             totalWeight == SeqSum([i \in DOMAIN rows |-> rows[i].weight])
             weightedAvgZ ==
                 RDiv(SeqSum([i \in DOMAIN rows |->
                                 RMul(RAbs(rows[i].zScore), rows[i].weight)]),
                      totalWeight)
         IN  RMin(I(1), RDiv(RAdd(RMul(Num(6, 10), maxAbsZ),
                                  RMul(Num(4, 10), weightedAvgZ)), I(3)))

\* const anomalyScore = computed(...)
anomalyScore ==
    LET rows == scoreBreakdown \o << >>
    IN  IF Len(rows) = 0 THEN I(0) ELSE AggregateOf(ValidOf(rows))

\* The label with "<=" at the thresholds.
LabelOfInclusive(score) ==
    IF RLe(score, Num(33, 100)) THEN "Normaal"
    ELSE IF RLe(score, Num(66, 100)) THEN "Afwijkend"
    ELSE "Sterk afwijkend"

LabelOf(score) ==
    IF RLt(score, Num(33, 100)) THEN "Normaal"
    ELSE IF RLt(score, Num(66, 100)) THEN "Afwijkend"
    ELSE "Sterk afwijkend"

\* const anomalyLabel = computed(...): the text of the label
anomalyLabel == LabelOf(anomalyScore)

\* ------------------------------------------------- queries on the tables

\* daily_activity_stats .eq('date', date).single()
QueryDay(date) == IF date \in Dates THEN DayRecord(db[date], date) ELSE Null

\* room_activity_hourly with from <= date of hour < before, in table order
RECURSIVE RoomsBetween(_, _)
RoomsBetween(from, before) ==
    IF from >= before THEN << >>
    ELSE (IF from \in Dates THEN DayRooms(db[from], from) ELSE << >>)
             \o RoomsBetween(from + 1, before)

\* daily_activity_stats with from <= date < before
RECURSIVE DaysBetween(_, _)
DaysBetween(from, before) ==
    IF from >= before THEN << >>
    ELSE (IF from \in Dates /\ db[from] # "none"
          THEN << DayRecord(db[from], from) >> ELSE << >>)
             \o DaysBetween(from + 1, before)

\* ------------------------------------------------- baseline statistics

\* The mean of the 24-length events_per_hour arrays, or null without any.
AvgPatternOf(dailyData) ==
    LET hourlyPatterns ==
            SelectSeq(dailyData, LAMBDA d : ~Falsy(d.events_per_hour)
                                            /\ Len(d.events_per_hour.a) = 24)
    IN  IF Len(hourlyPatterns) > 0
        THEN Arr([h \in 1 .. 24 |->
                 RDiv(SeqSum([i \in DOMAIN hourlyPatterns |->
                                 ElemOr0(hourlyPatterns[i].events_per_hour, h - 1)]),
                      I(Len(hourlyPatterns)))])
        ELSE Null

\* roomByDate: the rows grouped by row.hour.substring(0, 10)
RoomByDateOf(roomData) ==
    IF Falsy(roomData) THEN Obj([d \in {} |-> << >>])
    ELSE LET keys == {roomData.a[i].hour[1] : i \in DOMAIN roomData.a}
         IN  Obj([d \in keys |->
                     Arr(SelectSeq(roomData.a, LAMBDA r : r.hour[1] = d))])

\* The features loadBaselineStats computes statistics for.
BaselineFeatures == allFeatures

\* The samples of one feature over the historical days.
SamplesOf(feature, dailyData, roomByDate, pattern) ==
    LET raw == [i \in DOMAIN dailyData |->
                   LET rows == Prop(roomByDate, dailyData[i].date)
                   IN  getHistoricalValue(feature, dailyData[i],
                                          IF Falsy(rows) THEN Arr(<< >>)
                                          ELSE rows,
                                          pattern)]
    IN  SelectSeq(raw, LAMBDA v : v # Null /\ v # Undefined /\ ~IsNaN(v))

MeanOf(values) == RDiv(SeqSum(values), I(Len(values)))

VarianceOf(values) ==
    LET mean == MeanOf(values)
    IN  RDiv(SeqSum([i \in DOMAIN values |->
                        RMul(RSub(values[i], mean), RSub(values[i], mean))]),
             I(Len(values)))

\* stats[`std_...`] = std || 1
StdOf(values) ==
    LET std == MathSqrt(VarianceOf(values))
    IN  IF Falsy(std) THEN I(1) ELSE std

DaysCountKey == <<"daysCount", "", "">>

\* The stats object loadBaselineStats builds.
StatsOf(dailyData, roomByDate, pattern) ==
    LET feats == BaselineFeatures
        vals == [i \in DOMAIN feats |->
                    SamplesOf(feats[i], dailyData, roomByDate, pattern)] \o << >>
        have == {i \in DOMAIN feats : Len(vals[i]) > 0}
        keys == {StatKey(p, feats[i]) :
                     p \in {"avg", "std", "min", "max"}, i \in have}
        index(k) == CHOOSE i \in have : feats[i].key = k[2]
    IN  Obj([k \in keys \cup {DaysCountKey} |->
               IF k = DaysCountKey THEN I(Len(dailyData))
               ELSE CASE k[1] = "avg" -> MeanOf(vals[index(k)])
                      [] k[1] = "std" -> StdOf(vals[index(k)])
                      [] k[1] = "min" -> SeqMin(vals[index(k)])
                      [] OTHER -> SeqMax(vals[index(k)])])

\* ------------------------------------------------- the view

\* No helper has been called on its own.
NoCall == [fn |-> "none", args |-> << >>, out |-> Null]

Idle == [all |-> "idle", day |-> "idle", room |-> "idle", base |-> "idle",
         date |-> 0, from |-> 0, dailyData |-> << >>, before |-> 0]

\* No promise pending: importData and resetData are not running.
NoJob ==
    [fn |-> "none", at |-> "idle", out |-> "none", data |-> Null,
     orig |-> Null, before |-> Null, project |-> Null, n |-> 0,
     error |-> Null]

\* A project plan: its name and the number of its tickets, which have no
\* dependencies.
Plan(name, count) == [t |-> "plan", name |-> name, tickets |-> count]

\* The plan of data/projectplan.js.
ProjectPlan == Plan("projectplan", 1)

\* The project store with no tickets: project is null, or the id of the
\* server's projects row.
StoreWith(project) ==
    /\ tickets = << >>
    /\ ticketLocalToUuid = {}
    /\ projectUuid = project
    /\ now = 1
    /\ requests = << >>
    /\ remote = [projects |-> IF project = Null THEN {} ELSE {project},
                 tickets |-> {}]
    /\ chain = Null
    /\ initialData = ProjectPlan
    /\ job = NoJob

\* The store as the module is loaded, before initStore.
StoreNotLoaded == StoreWith(Null)

Init ==
    /\ db \in [Dates -> DayChoices]
    /\ mounted = FALSE
    /\ selectedDate = Today
    /\ loading = FALSE
    /\ error = Null
    /\ dayStats = Null
    /\ baselineStats = Null
    /\ roomHourlyData = Null
    /\ baselineRoomByDate = Obj([d \in {} |-> << >>])
    /\ baselineAvgHourlyPattern = Null
    /\ run = Idle
    /\ earlier = Idle
    /\ call = NoCall
    /\ StoreNotLoaded

\* loadAllData up to its await: the flags, the resets, and the three queries
\* its loaders build from the selected date before they suspend.
\* (loadDataQuality and dataQuality are left out: nothing modelled reads them.)
StartLoadAllData(date) ==
    /\ loading' = TRUE
    /\ dayStats' = Null
    /\ baselineStats' = Null
    /\ run' = [all |-> "running", day |-> "wait", room |-> "wait",
               base |-> "wait_daily", date |-> date,
               from |-> date - BaselineDays, dailyData |-> << >>, before |-> 0]
    /\ UNCHANGED storeVars
    /\ UNCHANGED << call, db, error, roomHourlyData, baselineRoomByDate,
                    baselineAvgHourlyPattern >>

\* onMounted: the households are loaded and the first one is selected.
OnMounted ==
    /\ ~mounted
    /\ mounted' = TRUE
    /\ UNCHANGED selectedDate
    /\ UNCHANGED earlier
    /\ StartLoadAllData(selectedDate)

\* prevDay, then watch(selectedDate)
PrevDay ==
    /\ mounted /\ run.all = "idle"
    /\ selectedDate > 1
    /\ selectedDate' = selectedDate - 1
    /\ UNCHANGED mounted
    /\ UNCHANGED earlier
    /\ StartLoadAllData(selectedDate')

\* nextDay (not past today), then watch(selectedDate)
NextDay ==
    /\ mounted /\ run.all = "idle"
    /\ selectedDate + 1 <= Today
    /\ selectedDate' = selectedDate + 1
    /\ UNCHANGED mounted
    /\ UNCHANGED earlier
    /\ StartLoadAllData(selectedDate')

\* loadDayStats after its await
DayStatsResponse(ok) ==
    /\ run.day = "wait"
    /\ run' = [run EXCEPT !.day = "done"]
    /\ IF ok
       THEN /\ dayStats' = QueryDay(run.date)
            /\ error' = Null
       ELSE /\ error' = [t |-> "str", s |-> "Kan dagstatistieken niet laden"]
            /\ UNCHANGED dayStats
    /\ UNCHANGED storeVars
    /\ UNCHANGED << call, earlier, db, mounted, selectedDate, loading, baselineStats,
                    roomHourlyData, baselineRoomByDate, baselineAvgHourlyPattern >>

\* loadRoomHourlyData after its await
RoomHourlyResponse(ok) ==
    /\ run.room = "wait"
    /\ run' = [run EXCEPT !.room = "done"]
    /\ IF ok
       THEN roomHourlyData' = Arr(RoomsBetween(run.date, run.date + 1))
       ELSE UNCHANGED roomHourlyData
    /\ UNCHANGED storeVars
    /\ UNCHANGED << call, earlier, db, mounted, selectedDate, loading, error, dayStats,
                    baselineStats, baselineRoomByDate, baselineAvgHourlyPattern >>

\* loadBaselineStats without the return on an empty result.
BaselineDailyResponseNoReturn(ok) ==
    /\ run.base = "wait_daily"
    /\ run' = [run EXCEPT !.base = "wait_rooms",
                          !.dailyData = DaysBetween(run.from, run.date),
                          !.before = selectedDate]
    /\ UNCHANGED storeVars
    /\ UNCHANGED << call, earlier, db, mounted, selectedDate, loading, error, dayStats,
                    baselineStats, roomHourlyData, baselineRoomByDate,
                    baselineAvgHourlyPattern >>

\* loadBaselineStats after its first await: no history ends it, otherwise it
\* builds the room query from the date selected now.
BaselineDailyResponse(ok) ==
    /\ run.base = "wait_daily"
    /\ LET dailyData == DaysBetween(run.from, run.date)
       IN  IF ~ok \/ Len(dailyData) = 0
           THEN /\ baselineStats' = Null
                /\ run' = [run EXCEPT !.base = "done"]
           ELSE /\ run' = [run EXCEPT !.base = "wait_rooms",
                                      !.dailyData = dailyData,
                                      !.before = selectedDate]
                /\ UNCHANGED baselineStats
    /\ UNCHANGED storeVars
    /\ UNCHANGED << call, earlier, db, mounted, selectedDate, loading, error, dayStats,
                    roomHourlyData, baselineRoomByDate, baselineAvgHourlyPattern >>

\* loadBaselineStats after its second await
BaselineRoomResponse(ok) ==
    /\ run.base = "wait_rooms"
    /\ LET roomData == IF ok THEN Arr(RoomsBetween(run.from, run.before)) ELSE Null
           pattern == AvgPatternOf(run.dailyData)
           roomByDate == RoomByDateOf(roomData)
       IN  /\ baselineAvgHourlyPattern' = pattern
           /\ baselineRoomByDate' = roomByDate
           /\ baselineStats' = StatsOf(run.dailyData, roomByDate, pattern)
    /\ run' = [run EXCEPT !.base = "done", !.dailyData = << >>]
    /\ UNCHANGED storeVars
    /\ UNCHANGED << call, earlier, db, mounted, selectedDate, loading, error, dayStats,
                    roomHourlyData >>

\* loadAllData after Promise.all: finally { loading.value = false }
LoadAllDataFinally ==
    /\ run.all = "running"
    /\ run.day = "done" /\ run.room = "done" /\ run.base = "done"
    /\ loading' = FALSE
    /\ run' = Idle
    /\ UNCHANGED storeVars
    /\ UNCHANGED << call, earlier, db, mounted, selectedDate, error, dayStats, baselineStats,
                    roomHourlyData, baselineRoomByDate, baselineAvgHourlyPattern >>

\* One loadAllData call at a time, every query answered without an error: the
\* view as it runs when the user waits for a load to end before the next
\* click.  (The ok = FALSE branches of the responses are the error paths of
\* the loaders; they are not taken here.)
Next ==
    \/ OnMounted
    \/ PrevDay
    \/ NextDay
    \/ DayStatsResponse(TRUE)
    \/ RoomHourlyResponse(TRUE)
    \/ BaselineDailyResponse(TRUE)
    \/ BaselineRoomResponse(TRUE)
    \/ LoadAllDataFinally

Spec == Init /\ [][Next]_vars

\* ======================================================== the first load
\*
\* The view from its construction to the end of the load onMounted starts:
\* the selected date stays today and its window is every earlier date.

MountNext ==
    \/ OnMounted
    \/ DayStatsResponse(TRUE)
    \/ RoomHourlyResponse(TRUE)
    \/ BaselineDailyResponse(TRUE)
    \/ BaselineRoomResponse(TRUE)
    \/ LoadAllDataFinally

SpecMount == Init /\ [][MountNext]_vars

\* ======================================================== clicks during a load
\*
\* Nothing stops a click while a load is in flight: watch(selectedDate) calls
\* loadAllData again, and the loaders of the call before it go on where they
\* were.  At most two calls are in flight: run is the later one, earlier the
\* one before it.

\* The tables here: quiet and busy days in turn, so that no two days next to
\* each other have the same record.
AsyncTable == [d \in Dates |-> IF d % 2 = 0 THEN "hi" ELSE "lo"]

AsyncInit ==
    /\ Init
    /\ db = AsyncTable

\* The call in progress becomes the earlier one.
Overtake ==
    IF run.all = "idle" THEN UNCHANGED earlier
    ELSE /\ earlier.all = "idle"
         /\ earlier' = run

\* The user moves between today and the day before.
FirstDayShown == Today - 1

\* prevDay at any time, then watch(selectedDate)
PrevDayAnyTime ==
    /\ mounted
    /\ selectedDate > FirstDayShown
    /\ selectedDate' = selectedDate - 1
    /\ UNCHANGED mounted
    /\ Overtake
    /\ StartLoadAllData(selectedDate')

\* nextDay at any time (not past today), then watch(selectedDate)
NextDayAnyTime ==
    /\ mounted
    /\ selectedDate + 1 <= Today
    /\ selectedDate' = selectedDate + 1
    /\ UNCHANGED mounted
    /\ Overtake
    /\ StartLoadAllData(selectedDate')

\* loadDayStats of the earlier call after its await
EarlierDayStatsResponse ==
    /\ earlier.day = "wait"
    /\ earlier' = [earlier EXCEPT !.day = "done"]
    /\ dayStats' = QueryDay(earlier.date)
    /\ error' = Null
    /\ UNCHANGED storeVars
    /\ UNCHANGED << call, run, db, mounted, selectedDate, loading, baselineStats,
                    roomHourlyData, baselineRoomByDate, baselineAvgHourlyPattern >>

\* loadRoomHourlyData of the earlier call after its await
EarlierRoomHourlyResponse ==
    /\ earlier.room = "wait"
    /\ earlier' = [earlier EXCEPT !.room = "done"]
    /\ roomHourlyData' = Arr(RoomsBetween(earlier.date, earlier.date + 1))
    /\ UNCHANGED storeVars
    /\ UNCHANGED << call, run, db, mounted, selectedDate, loading, error, dayStats,
                    baselineStats, baselineRoomByDate, baselineAvgHourlyPattern >>

\* loadBaselineStats of the earlier call after its first await: it builds
\* the room query from the date selected now.
EarlierBaselineDailyResponse ==
    /\ earlier.base = "wait_daily"
    /\ LET dailyData == DaysBetween(earlier.from, earlier.date)
       IN  IF Len(dailyData) = 0
           THEN /\ baselineStats' = Null
                /\ earlier' = [earlier EXCEPT !.base = "done"]
           ELSE /\ earlier' = [earlier EXCEPT !.base = "wait_rooms",
                                              !.dailyData = dailyData,
                                              !.before = selectedDate]
                /\ UNCHANGED baselineStats
    /\ UNCHANGED storeVars
    /\ UNCHANGED << call, run, db, mounted, selectedDate, loading, error, dayStats,
                    roomHourlyData, baselineRoomByDate, baselineAvgHourlyPattern >>

\* loadBaselineStats of the earlier call after its second await
EarlierBaselineRoomResponse ==
    /\ earlier.base = "wait_rooms"
    /\ LET roomData == Arr(RoomsBetween(earlier.from, earlier.before))
           pattern == AvgPatternOf(earlier.dailyData)
           roomByDate == RoomByDateOf(roomData)
       IN  /\ baselineAvgHourlyPattern' = pattern
           /\ baselineRoomByDate' = roomByDate
           /\ baselineStats' = StatsOf(earlier.dailyData, roomByDate, pattern)
    /\ earlier' = [earlier EXCEPT !.base = "done", !.dailyData = << >>]
    /\ UNCHANGED storeVars
    /\ UNCHANGED << call, run, db, mounted, selectedDate, loading, error, dayStats,
                    roomHourlyData >>

\* the earlier loadAllData after Promise.all: finally { loading.value = false }
EarlierLoadAllDataFinally ==
    /\ earlier.all = "running"
    /\ earlier.day = "done" /\ earlier.room = "done" /\ earlier.base = "done"
    /\ loading' = FALSE
    /\ earlier' = Idle
    /\ UNCHANGED storeVars
    /\ UNCHANGED << call, run, db, mounted, selectedDate, error, dayStats,
                    baselineStats, roomHourlyData, baselineRoomByDate,
                    baselineAvgHourlyPattern >>

AsyncNext ==
    \/ OnMounted
    \/ PrevDayAnyTime
    \/ NextDayAnyTime
    \/ DayStatsResponse(TRUE)
    \/ RoomHourlyResponse(TRUE)
    \/ BaselineDailyResponse(TRUE)
    \/ BaselineRoomResponse(TRUE)
    \/ LoadAllDataFinally
    \/ EarlierDayStatsResponse
    \/ EarlierRoomHourlyResponse
    \/ EarlierBaselineDailyResponse
    \/ EarlierBaselineRoomResponse
    \/ EarlierLoadAllDataFinally

SpecAsync == AsyncInit /\ [][AsyncNext]_vars

\* ======================================================== the helpers alone
\*
\* The exported helpers of useDataQuality.js applied to inputs of their own:
\* a call starts pending with its arguments and the helper's step fills in
\* what it returns.  The view stays as constructed.

Pending == [t |-> "pending"]

CallOf(fn, args) == [fn |-> fn, args |-> args, out |-> Pending]

\* Largest count in one hour of an input array.
MaxCount == 3

\* The hours an input array may have events in: the night, the hours around
\* DAY_START_HOUR, the end of the morning scan, the afternoon, the last hour.
HourMarks == {0, 4, 5, 6, 7, 11, 12, 13, 23}

\* The 24-length array with f[h] events in the hours h of DOMAIN f.
MarkedArr(f) ==
    Arr([i \in 1 .. 24 |-> IF (i - 1) \in DOMAIN f THEN I(f[i - 1]) ELSE I(0)]
        \o << >>)

\* The 24-length arrays with events in at most k of the marked hours.
SparseArrays(k) ==
    { MarkedArr(f) :
        f \in UNION { [S -> 1 .. MaxCount] :
                        S \in { T \in SUBSET HourMarks : Cardinality(T) <= k } } }

\* A missing array, an empty one and one of 23 hours.
InvalidArrays ==
    { Null, Undefined, Arr(<< >>), Arr([i \in 1 .. 23 |-> I(1)] \o << >>) }

\* The ranges asked for: every single hour, the whole day and the three
\* parts of the day of the view.
HourRanges ==
    { << h, h >> : h \in 0 .. 23 } \cup { << 0, 23 >>, << 6, 11 >>, << 12, 17 >>, << 18, 22 >> }

SumEventsInRangeCalls ==
    { CallOf("sumEventsInRange", << v, r[1], r[2] >>) :
        v \in SparseArrays(2) \cup InvalidArrays, r \in HourRanges }

\* Largest coordinate of an input vector.
MaxCoord == 2

\* The vectors of 2 or 3 counts, and a missing one.
Vectors ==
    { Arr(c) : c \in [1 .. 2 -> { I(k) : k \in 0 .. MaxCoord }]
                      \cup [1 .. 3 -> { I(k) : k \in 0 .. MaxCoord }] }
    \cup { Null, Undefined }

CosineSimilarityCalls ==
    { CallOf("cosineSimilarity", << a, b >>) : a \in Vectors, b \in Vectors }

\* Largest number in an input list.
MaxSample == 4

\* The lists of at most 3 numbers, and a missing one.
Lists ==
    { Arr(c) : c \in UNION { [1 .. n -> { I(k) : k \in 0 .. MaxSample }] :
                                n \in 0 .. 3 } }
    \cup { Null, Undefined }

StddevCalls == { CallOf("stddev", << arr >>) : arr \in Lists }

MinutesPerDay == 24 * 60

\* The time strings 00:00 .. 23:59 by their minute of the day.
TimeTable == [k \in 0 .. (MinutesPerDay - 1) |-> Time(k \div 60, k % 60)]

\* The times of day paired with one another, and missing ones.
SomeTimes ==
    { Time(h, m) : h \in {0, 6, 12, 23}, m \in {0, 1, 59} }
    \cup { Null, Undefined }

AwakeDurationCalls ==
    { CallOf("awakeDuration", << f, l >>) : f \in SomeTimes, l \in SomeTimes }
    \cup { CallOf("awakeDuration", << TimeTable[k], TimeTable[k] >>) :
              k \in DOMAIN TimeTable }

CalculateDayStartCalls ==
    { CallOf("calculateDayStart", << v >>) :
        v \in SparseArrays(3) \cup InvalidArrays }

FormatMinutesToTimeCalls ==
    { CallOf("formatMinutesToTime", << minutes >>) :
        minutes \in { I(k) : k \in 0 .. (MinutesPerDay - 1) }
                        \cup { Null, Undefined } }

\* Longest list of room rows handed to computeTransitionCount.
MaxRows == 3

\* The rows one day can have: three hours, two rooms, none to two events.
DayRows ==
    { RoomRow(room, Today, h, total) :
        room \in {"living", "kitchen"}, h \in {7, 13, 19}, total \in {0, 1, 2} }

\* Lists of rows in any table order, one row at most per room and hour.
RowLists ==
    { Arr(c) : c \in UNION { { r \in [1 .. n -> DayRows] :
                                 \A i, j \in 1 .. n :
                                     (r[i].hour = r[j].hour
                                        /\ r[i].room_name = r[j].room_name)
                                     => i = j } : n \in 0 .. MaxRows } }
    \cup { Null, Undefined }

ComputeTransitionCountCalls ==
    { CallOf("computeTransitionCount", << roomData >>) : roomData \in RowLists }

HelperCalls ==
    SumEventsInRangeCalls \cup CosineSimilarityCalls \cup StddevCalls
        \cup AwakeDurationCalls \cup CalculateDayStartCalls
        \cup FormatMinutesToTimeCalls

IdleWith(calls, project) ==
    /\ db = [d \in Dates |-> "none"]
    /\ mounted = FALSE
    /\ selectedDate = Today
    /\ loading = FALSE
    /\ error = Null
    /\ dayStats = Null
    /\ baselineStats = Null
    /\ roomHourlyData = Null
    /\ baselineRoomByDate = Obj([d \in {} |-> << >>])
    /\ baselineAvgHourlyPattern = Null
    /\ run = Idle
    /\ earlier = Idle
    /\ call \in calls
    /\ StoreWith(project)

HelperInitWith(calls) == IdleWith(calls, Null)

HelperInit == HelperInitWith(HelperCalls)

\* The pending call of helper fn returns out.
Return(fn, out) ==
    /\ call.fn = fn
    /\ call.out = Pending
    /\ call' = [call EXCEPT !.out = out]
    /\ UNCHANGED storeVars
    /\ UNCHANGED << db, mounted, selectedDate, loading, error, dayStats,
                    baselineStats, roomHourlyData, baselineRoomByDate,
                    baselineAvgHourlyPattern, run, earlier >>

ApplySumEventsInRange ==
    Return("sumEventsInRange",
           sumEventsInRange(call.args[1], call.args[2], call.args[3]))

ApplyCosineSimilarity ==
    Return("cosineSimilarity", cosineSimilarity(call.args[1], call.args[2]))

ApplyStddev == Return("stddev", stddev(call.args[1]))

ApplyAwakeDuration ==
    Return("awakeDuration", awakeDuration(call.args[1], call.args[2]))

ApplyCalculateDayStart ==
    Return("calculateDayStart", calculateDayStart(call.args[1]))

ApplyFormatMinutesToTime ==
    Return("formatMinutesToTime", formatMinutesToTime(call.args[1]))

ApplyComputeTransitionCount ==
    Return("computeTransitionCount", computeTransitionCount(call.args[1]))

\* The string formatMinutesToTime returned is handed to timeToMinutes; the
\* call keeps the minutes the string was made of.
ApplyTimeToMinutes ==
    /\ call.fn = "formatMinutesToTime"
    /\ call.out \notin {Pending, Null}
    /\ call' = [fn |-> "timeToMinutes", args |-> << call.out >>,
                out |-> timeToMinutes(call.out), minutes |-> call.args[1]]
    /\ UNCHANGED storeVars
    /\ UNCHANGED << db, mounted, selectedDate, loading, error, dayStats,
                    baselineStats, roomHourlyData, baselineRoomByDate,
                    baselineAvgHourlyPattern, run, earlier >>

HelperNext ==
    \/ ApplySumEventsInRange
    \/ ApplyCosineSimilarity
    \/ ApplyStddev
    \/ ApplyAwakeDuration
    \/ ApplyCalculateDayStart
    \/ ApplyFormatMinutesToTime
    \/ ApplyTimeToMinutes

SpecHelpers == HelperInit /\ [][HelperNext]_vars

\* A call of helper fn that has returned.
Returned(fn) == call.fn = fn /\ call.out # Pending

\* --------------------------------------------- the room rows of a day

RoomRowsInit == HelperInitWith(ComputeTransitionCountCalls)

RoomRowsNext == ApplyComputeTransitionCount

SpecRoomRows == RoomRowsInit /\ [][RoomRowsNext]_vars

\* ---------------------------------------------------- the project store

\* Number of tickets addTicket creates at most.
MaxTickets == 3

\* Number of dependencies the tickets have at most at one time.
MaxDependencies == 3

\* Number of requests on their way to the server at most.
MaxRequests == 2

TicketIds == 1 .. MaxTickets

Statuses == {"todo", "done"}

\* The id the server gives a new row; NoUuid is Map.get of a missing key.
Uuid(k) == [t |-> "uuid", k |-> k]
NoUuid == Uuid(0)

\* store.tickets.find(t => t.id === id) as an index; 0 when there is none.
FindIndex(id) ==
    IF \E i \in DOMAIN tickets : tickets[i].id = id
    THEN CHOOSE i \in DOMAIN tickets :
             tickets[i].id = id /\ \A k \in 1 .. (i - 1) : tickets[k].id # id
    ELSE 0

\* Array.prototype.includes that looks at the first element only.
IncludesAtFront(s, e) == s # << >> /\ s[1] = e

Includes(s, e) == \E i \in DOMAIN s : s[i] = e

Without(s, e) == SelectSeq(s, LAMBDA x : x # e)

\* ticketLocalToUuid.get(id)
UuidOf(id) ==
    IF \E p \in ticketLocalToUuid : p[1] = id
    THEN (CHOOSE p \in ticketLocalToUuid : p[1] = id)[2]
    ELSE NoUuid

registerTicketMapping(localId, uuid) ==
    { p \in ticketLocalToUuid : p[1] # localId } \cup { << localId, uuid >> }

mapLocalIdsToUuids(localIds) ==
    SelectSeq([i \in DOMAIN localIds |-> UuidOf(localIds[i])],
              LAMBDA u : u # NoUuid)

\* Object.assign(ticket, updates)
Assign(ticket, updates) ==
    [f \in DOMAIN ticket |->
        IF f \in DOMAIN updates THEN updates[f] ELSE ticket[f]]

mapTicketUpdatesToDb(updates) ==
    (IF "status" \in DOMAIN updates
     THEN "status" :> updates["status"] ELSE << >>)
    @@ (IF "dependsOn" \in DOMAIN updates
        THEN "depends_on" :> mapLocalIdsToUuids(updates["dependsOn"])
        ELSE << >>)
    @@ (IF "blockedBy" \in DOMAIN updates
        THEN "blocked_by" :> mapLocalIdsToUuids(updates["blockedBy"])
        ELSE << >>)

\* The requests persistTicket adds to those in sent: none when the ticket
\* has no UUID yet.
persistTicket(sent, localId, updates) ==
    IF UuidOf(localId) = NoUuid THEN sent
    ELSE Append(sent, [op |-> "update", uuid |-> UuidOf(localId),
                       updates |-> mapTicketUpdatesToDb(updates)])

\* Dependencies held by the tickets of the store.
DependencyCount(ts) ==
    IF ts = << >> THEN 0
    ELSE SeqSum([i \in DOMAIN ts |-> I(Len(ts[i].dependsOn))]).n

StoreFrame == UNCHANGED << viewVars, initialData, job >>

\* addTicket: the new ticket's id is the clock's reading; ticket numbers and
\* the project row's next_ticket_number are not part of the model.
addTicket(status) ==
    /\ now <= MaxTickets
    /\ Len(requests) < MaxRequests
    /\ LET localId == now
           newTicket == [id |-> localId, status |-> status,
                         dependsOn |-> << >>, blockedBy |-> << >>]
       IN  /\ tickets' = Append(tickets, newTicket)
           /\ requests' =
                 IF projectUuid # Null
                 THEN Append(requests,
                        [op |-> "create", localId |-> localId,
                         row |-> [status |-> newTicket.status,
                                  depends_on |->
                                      mapLocalIdsToUuids(newTicket.dependsOn),
                                  blocked_by |->
                                      mapLocalIdsToUuids(newTicket.blockedBy)]])
                 ELSE requests
    /\ now' = now + 1
    /\ chain' = Null
    /\ UNCHANGED << ticketLocalToUuid, projectUuid, remote >>
    /\ StoreFrame

updateTicket(id, updates) ==
    /\ Len(requests) < MaxRequests
    /\ FindIndex(id) # 0
    /\ tickets' = [tickets EXCEPT ![FindIndex(id)] = Assign(@, updates)]
    /\ requests' = persistTicket(requests, id, updates)
    /\ chain' = Null
    /\ UNCHANGED << ticketLocalToUuid, projectUuid, now, remote >>
    /\ StoreFrame

deleteTicket(id) ==
    /\ Len(requests) < MaxRequests
    /\ FindIndex(id) # 0
    /\ tickets' = [i \in 1 .. (Len(tickets) - 1) |->
                      IF i < FindIndex(id) THEN tickets[i] ELSE tickets[i + 1]]
    /\ IF UuidOf(id) # NoUuid
       THEN /\ requests' = Append(requests,
                                  [op |-> "delete", uuid |-> UuidOf(id)])
            /\ ticketLocalToUuid' = { p \in ticketLocalToUuid : p[1] # id }
       ELSE UNCHANGED << requests, ticketLocalToUuid >>
    /\ chain' = Null
    /\ UNCHANGED << projectUuid, now, remote >>
    /\ StoreFrame

addDependency(ticketId, dependsOnId) ==
    /\ Len(requests) + 2 <= MaxRequests
    /\ DependencyCount(tickets) < MaxDependencies
    /\ FindIndex(ticketId) # 0
    /\ FindIndex(dependsOnId) # 0
    /\ LET pushed == [tickets EXCEPT ![FindIndex(ticketId)].dependsOn =
                         IF Includes(@, dependsOnId) THEN @
                         ELSE Append(@, dependsOnId)]
           both == [pushed EXCEPT ![FindIndex(dependsOnId)].blockedBy =
                       IF Includes(@, ticketId) THEN @
                       ELSE Append(@, ticketId)]
           first == persistTicket(requests, ticketId,
                       "dependsOn" :> both[FindIndex(ticketId)].dependsOn)
       IN  /\ tickets' = both
           /\ requests' =
                 persistTicket(first, dependsOnId,
                     "blockedBy" :> both[FindIndex(dependsOnId)].blockedBy)
    /\ chain' = Null
    /\ UNCHANGED << ticketLocalToUuid, projectUuid, now, remote >>
    /\ StoreFrame

removeDependency(ticketId, dependsOnId) ==
    /\ Len(requests) + 2 <= MaxRequests
    /\ FindIndex(ticketId) # 0 \/ FindIndex(dependsOnId) # 0
    /\ LET filtered ==
               IF FindIndex(ticketId) = 0 THEN tickets
               ELSE [tickets EXCEPT ![FindIndex(ticketId)].dependsOn =
                        Without(@, dependsOnId)]
           first ==
               IF FindIndex(ticketId) = 0 THEN requests
               ELSE persistTicket(requests, ticketId,
                        "dependsOn" :> filtered[FindIndex(ticketId)].dependsOn)
           both ==
               IF FindIndex(dependsOnId) = 0 THEN filtered
               ELSE [filtered EXCEPT ![FindIndex(dependsOnId)].blockedBy =
                        Without(@, ticketId)]
       IN  /\ tickets' = both
           /\ requests' =
                 IF FindIndex(dependsOnId) = 0 THEN first
                 ELSE persistTicket(first, dependsOnId,
                          "blockedBy" :> both[FindIndex(dependsOnId)].blockedBy)
    /\ chain' = Null
    /\ UNCHANGED << ticketLocalToUuid, projectUuid, now, remote >>
    /\ StoreFrame

\* getTicketChain with its visited set: the chain and the set as the call
\* leaves it.
RECURSIVE ChainFrom(_, _)
RECURSIVE ChainOfDependencies(_, _, _, _)
ChainFrom(ticketId, visited) ==
    IF ticketId \in visited THEN [chain |-> << >>, visited |-> visited]
    ELSE IF FindIndex(ticketId) = 0
         THEN [chain |-> << >>, visited |-> visited \cup {ticketId}]
         ELSE ChainOfDependencies(tickets[FindIndex(ticketId)].dependsOn, 1,
                                  << ticketId >>, visited \cup {ticketId})

\* ticket.dependsOn.forEach(depId => chain.unshift(...getTicketChain(depId)))
ChainOfDependencies(deps, k, sofar, visited) ==
    IF k > Len(deps) THEN [chain |-> sofar, visited |-> visited]
    ELSE LET sub == ChainFrom(deps[k], visited)
         IN  ChainOfDependencies(deps, k + 1, sub.chain \o sofar, sub.visited)

\* The ids of the tickets getTicketChain(ticketId) returns.
getTicketChain(ticketId) == ChainFrom(ticketId, {}).chain

GetTicketChain(ticketId) ==
    /\ FindIndex(ticketId) # 0
    /\ chain' = [of |-> ticketId, ids |-> getTicketChain(ticketId)]
    /\ UNCHANGED << tickets, ticketLocalToUuid, projectUuid, now, requests,
                    remote >>
    /\ StoreFrame

\* The store while no project is loaded (projectUuid is null and no ticket
\* has a UUID): addTicket and persistTicket send nothing.
DependenciesInit == HelperInitWith({NoCall})

DependenciesNext ==
    \/ addTicket("todo")
    \/ \E a, b \in TicketIds : addDependency(a, b)
    \/ \E a, b \in TicketIds : removeDependency(a, b)

SpecDependencies == DependenciesInit /\ [][DependenciesNext]_vars

\* The same with getTicketChain called on the graphs that arise.
ChainNext ==
    \/ DependenciesNext
    \/ \E t \in TicketIds : GetTicketChain(t)

SpecChain == DependenciesInit /\ [][ChainNext]_vars

\* The id of the k-th projects row; initStore has loaded the one numbered 0.
ProjectRow(k) == [t |-> "project", k |-> k]
LoadedProject == ProjectRow(0)

\* The row of the tickets table with this id after an update of columns.
UpdatedRow(row, columns) ==
    [c \in DOMAIN row |-> IF c \in DOMAIN columns THEN columns[c] ELSE row[c]]

\* The server handles the oldest request and the client its response: the
\* then-callback of api.createTicket registers the new row's id. Requests
\* are handled in the order they were sent.
CreateTicketResolved ==
    /\ requests # << >>
    /\ Head(requests).op = "create"
    /\ LET request == Head(requests)
           dbTicket == [id |-> Uuid(request.localId),
                        status |-> request.row.status,
                        depends_on |-> request.row.depends_on,
                        blocked_by |-> request.row.blocked_by]
       IN  /\ remote' = [remote EXCEPT !.tickets = @ \cup {dbTicket}]
           /\ ticketLocalToUuid' =
                 registerTicketMapping(request.localId, dbTicket.id)
    /\ requests' = Tail(requests)
    /\ UNCHANGED << tickets, projectUuid, now, chain >>
    /\ StoreFrame

UpdateTicketResolved ==
    /\ requests # << >>
    /\ Head(requests).op = "update"
    /\ remote' = [remote EXCEPT !.tickets =
                     { IF row.id = Head(requests).uuid
                       THEN UpdatedRow(row, Head(requests).updates)
                       ELSE row : row \in @ }]
    /\ requests' = Tail(requests)
    /\ UNCHANGED << tickets, ticketLocalToUuid, projectUuid, now, chain >>
    /\ StoreFrame

DeleteTicketResolved ==
    /\ requests # << >>
    /\ Head(requests).op = "delete"
    /\ remote' = [remote EXCEPT !.tickets =
                     { row \in @ : row.id # Head(requests).uuid }]
    /\ requests' = Tail(requests)
    /\ UNCHANGED << tickets, ticketLocalToUuid, projectUuid, now, chain >>
    /\ StoreFrame

\* The store after initStore has loaded a project that has no tickets yet.
StoreInit == IdleWith({NoCall}, LoadedProject)

\* The ticket functions and the server's responses in any order; one
\* ticket fewer is created than where nothing is sent.
StoreNext ==
    \/ now < MaxTickets /\ addTicket("todo")
    \/ \E id \in TicketIds : updateTicket(id, "status" :> "done")
    \/ \E id \in TicketIds : deleteTicket(id)
    \/ \E a, b \in TicketIds : addDependency(a, b)
    \/ \E a, b \in TicketIds : removeDependency(a, b)
    \/ CreateTicketResolved
    \/ UpdateTicketResolved
    \/ DeleteTicketResolved

SpecStore == StoreInit /\ [][StoreNext]_vars

\* ------------------------------------------------- import and reset

\* Number of importData and resetData calls.
MaxImports == 2

\* seedFromInitialData: localIdCounter = 1000 in hydrateFromSupabase
LocalIdStart == 1000

\* What JSON.parse makes of the string handed to importData: a syntax error,
\* an object without project and phases, or a plan.
ImportedData ==
    { [t |-> "syntax error"], [t |-> "object"],
      Plan("imported", 0), Plan("imported", 2) }

\* The awaits of seedFromInitialData, in order.
SeedSteps ==
    << "getSession", "createProject", "createPhases", "createTickets",
       "hydrate" >>

StepAfter(at) ==
    SeedSteps[(CHOOSE i \in DOMAIN SeedSteps : SeedSteps[i] = at) + 1]

ImportFrame == UNCHANGED << viewVars, now, requests, chain >>

\* importData up to its first await: the delete of the current project, or
\* without one the first await of seedFromInitialData.
importData(data) ==
    /\ job.at = "idle"
    /\ job.n < MaxImports
    /\ LET started == [fn |-> "importData", at |-> "idle", out |-> "pending",
                       data |-> data, orig |-> Null, before |-> initialData,
                       project |-> projectUuid, n |-> job.n + 1,
                       error |-> Null]
       IN  IF data.t = "syntax error"
           THEN /\ job' = [started EXCEPT !.out = "false",
                                          !.error = "Import mislukt"]
                /\ UNCHANGED initialData
           ELSE IF data.t # "plan"
           THEN /\ job' = [started EXCEPT !.out = "false"]
                /\ UNCHANGED initialData
           ELSE IF projectUuid # Null
           THEN /\ job' = [started EXCEPT !.at = "delete"]
                /\ UNCHANGED initialData
           ELSE /\ job' = [started EXCEPT !.at = "getSession",
                                          !.orig = initialData]
                /\ initialData' = data
    /\ UNCHANGED << tickets, ticketLocalToUuid, projectUuid, remote >>
    /\ ImportFrame

\* resetData up to its first await.
resetData ==
    /\ job.at = "idle"
    /\ job.n < MaxImports
    /\ job' = [fn |-> "resetData",
               at |-> IF projectUuid # Null THEN "delete" ELSE "getSession",
               out |-> "pending", data |-> Null, orig |-> Null,
               before |-> initialData, project |-> projectUuid,
               n |-> job.n + 1, error |-> Null]
    /\ UNCHANGED << tickets, ticketLocalToUuid, projectUuid, remote,
                    initialData >>
    /\ ImportFrame

\* The delete of the projects row is answered (it cascades to the tickets);
\* the caller goes on to the first await of seedFromInitialData.
ProjectDeleted ==
    /\ job.at = "delete"
    /\ remote' = [projects |-> remote.projects \ {projectUuid},
                  tickets |-> {}]
    /\ IF job.fn = "importData"
       THEN /\ initialData' = job.data
            /\ job' = [job EXCEPT !.at = "getSession", !.orig = initialData]
            /\ UNCHANGED projectUuid
       ELSE /\ projectUuid' = Null
            /\ job' = [job EXCEPT !.at = "getSession"]
            /\ UNCHANGED initialData
    /\ UNCHANGED << tickets, ticketLocalToUuid >>
    /\ ImportFrame

\* The rows createTickets inserts for a plan.
SeededRows(plan) ==
    { [id |-> Uuid(k), status |-> "todo", depends_on |-> << >>,
       blocked_by |-> << >>] : k \in 1 .. plan.tickets }

\* hydrateFromSupabase: the tickets of the rows, with local ids from 1000.
HydratedTickets(rows) ==
    [i \in 1 .. Cardinality(rows) |->
        [id |-> LocalIdStart + i - 1, status |-> "todo",
         dependsOn |-> << >>, blockedBy |-> << >>]]

HydratedMapping(rows) ==
    { << LocalIdStart + i - 1, Uuid(i) >> : i \in 1 .. Cardinality(rows) }

\* An await of seedFromInitialData is answered. A rejection ends the seed:
\* importData catches it and returns false, resetData rejects. After the
\* last await importData restores initialData and returns true.
SeedStep(ok) ==
    /\ \E i \in DOMAIN SeedSteps : SeedSteps[i] = job.at
    /\ IF ~ok
       THEN /\ job' = IF job.fn = "importData"
                      THEN [job EXCEPT !.at = "idle", !.out = "false",
                                       !.error = "Import mislukt"]
                      ELSE [job EXCEPT !.at = "idle", !.out = "rejected"]
            /\ UNCHANGED << tickets, ticketLocalToUuid, projectUuid, remote,
                            initialData >>
       ELSE IF job.at = "createProject"
       THEN /\ remote' = [remote EXCEPT !.projects = @ \cup {ProjectRow(job.n)}]
            /\ projectUuid' = ProjectRow(job.n)
            /\ job' = [job EXCEPT !.at = StepAfter(job.at)]
            /\ UNCHANGED << tickets, ticketLocalToUuid, initialData >>
       ELSE IF job.at = "createTickets"
       THEN /\ remote' = [remote EXCEPT !.tickets = SeededRows(initialData)]
            /\ job' = [job EXCEPT !.at = StepAfter(job.at)]
            /\ UNCHANGED << tickets, ticketLocalToUuid, projectUuid,
                            initialData >>
       ELSE IF job.at = "hydrate"
       THEN /\ tickets' = HydratedTickets(remote.tickets)
            /\ ticketLocalToUuid' = HydratedMapping(remote.tickets)
            /\ IF job.fn = "importData"
               THEN /\ initialData' = job.orig
                    /\ job' = [job EXCEPT !.at = "idle", !.out = "true"]
               ELSE /\ job' = [job EXCEPT !.at = "idle", !.out = "resolved"]
                    /\ UNCHANGED initialData
            /\ UNCHANGED << projectUuid, remote >>
       ELSE /\ job' = [job EXCEPT !.at = StepAfter(job.at)]
            /\ UNCHANGED << tickets, ticketLocalToUuid, projectUuid, remote,
                            initialData >>
    /\ ImportFrame

\* The store after initStore, with a project on the server or, initStore
\* having failed, without one.
ImportInit == \E project \in {Null, LoadedProject} : IdleWith({NoCall}, project)

ImportNext ==
    \/ \E data \in ImportedData : importData(data)
    \/ resetData
    \/ ProjectDeleted
    \/ \E ok \in BOOLEAN : SeedStep(ok)

SpecImport == ImportInit /\ [][ImportNext]_vars

\* ======================================================== properties

\* The rows on display, as a sequence.
Rows == scoreBreakdown \o << >>

\* The rows that carry a score: those whose z-score is a number.
Scored(rows) == SelectSeq(rows, LAMBDA r : IsNum(r.zScore))

\* Sum of the weights of the rows.
WeightSum(rows) == SeqSum([i \in DOMAIN rows |-> rows[i].weight])

\* Sum of |z| * weight over the rows.
WeightedAbsZSum(rows) ==
    SeqSum([i \in DOMAIN rows |-> RMul(RAbs(rows[i].zScore), rows[i].weight)])

Clamp(v, lo, hi) == IF RLt(v, lo) THEN lo ELSE IF RLt(hi, v) THEN hi ELSE v

RoomFeatureKeys == {"room_ratio", "main_room_pct", "transition_count"}

\* The historical window of the selected date holds no record.
WindowEmpty == Len(DaysBetween(selectedDate - BaselineDays, selectedDate)) = 0

\* ---------------------------------------------------------------- C1

\* The largest |z| of the rows: that of a row no other exceeds.
MaxAbsZ(rows) ==
    LET m == CHOOSE i \in DOMAIN rows :
                 \A j \in DOMAIN rows :
                     RLe(RAbs(rows[j].zScore), RAbs(rows[i].zScore))
    IN  RAbs(rows[m].zScore)

\* (0.6 * maxAbsZ + 0.4 * weightedAvgAbsZ) / 3 over the rows
RawAggregate(rows) ==
    RDiv(RAdd(RMul(Num(6, 10), MaxAbsZ(rows)),
              RMul(Num(4, 10), RDiv(WeightedAbsZSum(rows), WeightSum(rows)))),
         I(3))

\* C1: the aggregate score is clamp((0.6 * maxAbsZ + 0.4 * weightedAvgAbsZ) / 3,
\* 0, 1) over the scored rows, with weightedAvgAbsZ = sum(w_i * |z_i|) /
\* sum(w_i); it is 0 when no row is scored, and it always lies in [0, 1].
C1_AggregateFormula ==
    LET S == Scored(Rows)
        score == anomalyScore
    IN  /\ S = << >> => score = I(0)
        /\ S # << >> => score = Clamp(RawAggregate(S), I(0), I(1))
        /\ RLe(I(0), score) /\ RLe(score, I(1))

\* Scored rows with different |z| and an aggregate strictly inside (0, 1).
C1_Witness ==
    LET S == Scored(Rows)
        score == anomalyScore
    IN  /\ \E i, j \in DOMAIN S :
               RLt(RAbs(S[i].zScore), RAbs(S[j].zScore))
        /\ RLt(I(0), score) /\ RLt(score, I(1))

\* ---------------------------------------------------------------- C2

ExpectedLabel(s) ==
    IF RLt(s, Num(33, 100)) THEN "Normaal"
    ELSE IF RLe(Num(33, 100), s) /\ RLt(s, Num(66, 100)) THEN "Afwijkend"
    ELSE "Sterk afwijkend"

\* Scores k / 100 the label is probed at.
LabelProbes == {0, 1, 16, 32, 33, 34, 50, 65, 66, 67, 99, 100}

\* C2: the label is "normal" for s < 0.33, "elevated" for 0.33 <= s < 0.66 and
\* "strongly anomalous" for s >= 0.66; every score gets exactly one of the
\* three.  Stated for the score on display and for the scores k / 100 of
\* LabelProbes: the ends of [0, 1], the two thresholds and their neighbours.
C2_LabelThresholds ==
    LET score == anomalyScore
    IN  /\ LabelOf(score) = ExpectedLabel(score)
        /\ anomalyLabel = LabelOf(score)
        /\ \A k \in LabelProbes :
               LET s == [t |-> "num", n |-> k, d |-> 100]
                   label == LabelOf(s)
               IN  /\ label = ExpectedLabel(s)
                   /\ label \in {"Normaal", "Afwijkend", "Sterk afwijkend"}

\* A loaded day whose score lies between the two thresholds.
C2_Witness ==
    LET score == anomalyScore
    IN  /\ Len(scoreBreakdown) > 0
        /\ RLt(Num(33, 100), score) /\ RLt(score, Num(66, 100))
        /\ LabelOf(score) = "Afwijkend"

\* ---------------------------------------------------------------- C3

AllWithin(rows, bound) ==
    \A i \in DOMAIN rows : RLe(RAbs(rows[i].zScore), bound)

AllExactly(rows, v) ==
    \A i \in DOMAIN rows : RAbs(rows[i].zScore) = v

\* C3 as stated: whenever every scored row has |z| <= 1 (all rows at exactly
\* |z| = 1 included) the aggregate is strictly below 0.33 and the label is
\* "normal".
C3_WithinOneIsNormal ==
    LET S == Scored(Rows)
        score == anomalyScore
    IN  AllWithin(S, I(1)) =>
            RLt(score, Num(33, 100)) /\ LabelOf(score) = "Normaal"

\* C3, amended: whenever every scored row has |z| <= 1 the aggregate is at
\* most 1/3 and the label is not "strongly anomalous"; the aggregate is
\* strictly below 0.33 and the label "normal" when moreover
\* (0.6 * maxAbsZ + 0.4 * weightedAvgAbsZ) / 3 < 0.33; with every row at
\* |z| = 1 the aggregate is exactly 1/3 and the label "elevated".
C3_WithinOneAtMostThird ==
    LET S == Scored(Rows)
        score == anomalyScore
    IN  AllWithin(S, I(1)) =>
            /\ RLe(score, Num(1, 3))
            /\ LabelOf(score) # "Sterk afwijkend"
            /\ (S # << >> /\ RLt(RawAggregate(S), Num(33, 100)))
                   => LabelOf(score) = "Normaal"
            /\ (S # << >> /\ AllExactly(S, I(1)))
                   => score = Num(1, 3) /\ LabelOf(score) = "Afwijkend"

\* Every row scored at exactly |z| = 1.
C3_Witness ==
    LET S == Scored(Rows)
    IN  /\ Len(S) >= 2
        /\ AllExactly(S, I(1))
        /\ anomalyLabel = "Afwijkend"

\* ---------------------------------------------------------------- C4

Missing(v) == v \in {Null, Undefined}

\* The data of the selected date is on display: no load is under way.
Settled == mounted /\ ~loading

\* C4: every row's z-score is (today - mean) / stddev, and exactly 0 when
\* today, mean or stddev is null or undefined or when stddev is 0; it is
\* never NaN.  (Stated for the rows on display once the load has ended.)
C4_ZScoreRule ==
    Settled => \A i \in DOMAIN Rows :
        LET r == Rows[i]
            degenerate == Missing(r.todayValue) \/ Missing(r.baselineValue)
                              \/ Missing(r.stddev) \/ r.stddev = I(0)
        IN  /\ r.zScore # NaN
            /\ degenerate => r.zScore = I(0)
            /\ ~degenerate =>
                   r.zScore = RDiv(RSub(r.todayValue, r.baselineValue), r.stddev)

\* ---------------------------------------------------------------- C5

ExpectedSeverity(z) ==
    IF RLt(I(2), RAbs(z)) THEN "high"
    ELSE IF RLt(I(1), RAbs(z)) /\ RLe(RAbs(z), I(2)) THEN "medium"
    ELSE "low"

HasBaselineEntry(feature) ==
    /\ baselineStats # Null
    /\ StatKey("avg", feature) \in DOMAIN baselineStats.f

RowKeys(rows) == {rows[i].key : i \in DOMAIN rows}

\* C6: an active feature whose today value is null and for which the
\* baseline has an entry has no row: it is not scored with z = 0 and its
\* weight is not part of the weight sum.  (Stated for the rows on display
\* once the load has ended.)
C6_NullTodayOmitted ==
    (Settled /\ dayStats # Null) =>
        \A i \in DOMAIN activeFeatures :
            LET feature == activeFeatures[i]
            IN  (getTodayValue(feature) = Null /\ HasBaselineEntry(feature))
                    => feature.key \notin RowKeys(Rows)

\* ---------------------------------------------------------------- C7

\* C7: a feature with a today value but without a baseline entry (no
\* historical day has a value for it) produces no row.  (Stated for the
\* rows on display once the load has ended.)
C7_NoBaselineEntryOmitted ==
    (Settled /\ dayStats # Null /\ baselineStats # Null) =>
        \A i \in DOMAIN activeFeatures :
            LET feature == activeFeatures[i]
            IN  (getTodayValue(feature) # Null /\ ~HasBaselineEntry(feature))
                    => feature.key \notin RowKeys(Rows)

\* ---------------------------------------------------------------- C8

\* C8: when the historical window of the selected date holds no record, the
\* baseline has no entries (there is no baseline at all), the table has no
\* rows, the aggregate score is 0 and the label is "normal".
C8_EmptyWindowNoBaseline ==
    WindowEmpty =>
        /\ baselineStats = Null
        /\ Rows = << >>
        /\ anomalyScore = I(0)
        /\ anomalyLabel = "Normaal"

\* A day with a record of its own and an empty window, after its load.
C8_Witness ==
    /\ Settled
    /\ WindowEmpty
    /\ dayStats # Null /\ dayStats.total_events # Null

\* ---------------------------------------------------------------- C9

\* The loaded record has rooms_available absent or at most 1.
FewRooms(ds) == Falsy(ds.rooms_available) \/ RLe(ds.rooms_available, I(1))

\* C9: when the record of the selected day has rooms_available <= 1 or none,
\* neither the active features nor the rows contain room_ratio or
\* main_room_pct.
C9_FewRoomsNoRoomRows ==
    (dayStats # Null /\ FewRooms(dayStats)) =>
        /\ \A i \in DOMAIN activeFeatures :
               activeFeatures[i].key \notin {"room_ratio", "main_room_pct"}
        /\ RowKeys(Rows) \cap {"room_ratio", "main_room_pct"} = {}

\* A single-room day with a table of rows.
C9_Witness ==
    /\ Settled
    /\ dayStats # Null /\ dayStats.rooms_available = I(1)
    /\ Len(Rows) > 0

\* --------------------------------------------------------------- C10

\* Every record of the household has rooms_available absent or at most 1.
SingleRoomHousehold ==
    \A d \in Dates : QueryDay(d) = Null \/ FewRooms(QueryDay(d))

\* C10: the baseline of a household with rooms_available <= 1 has no avg,
\* std, min or max entry for a room feature (room_ratio, main_room_pct,
\* transition_count): the baseline is computed for the same features as the
\* rows.
C10_BaselineSkipsRoomFeatures ==
    (Settled /\ SingleRoomHousehold /\ baselineStats # Null) =>
        \A k \in DOMAIN baselineStats.f : k[2] \notin RoomFeatureKeys

\* --------------------------------------------------------------- C11

\* C11: every standard deviation stored in the baseline is at least 1, for
\* every feature and every set of historical samples, those with a positive
\* spread below 1 included.
C11_StoredStdAtLeastOne ==
    (Settled /\ baselineStats # Null) =>
        \A k \in DOMAIN baselineStats.f :
            k[1] = "std" => RLe(I(1), baselineStats.f[k])

\* --------------------------------------------------------------- C12

\* The room rows a record is extracted with (roomData || []).
RowsOrNone(roomData) == IF Falsy(roomData) THEN Arr(<< >>) ELSE roomData

\* C12: for every feature of the catalog, the value extracted from a record
\* as "today" equals the value extracted from the same record, room rows and
\* average hourly pattern as a historical day, an absent first_activity or
\* last_activity included.  (Stated for the record on display.)
C12_TodayEqualsHistorical ==
    (Settled /\ dayStats # Null) =>
        \A i \in DOMAIN allFeatures :
            TodayValue(allFeatures[i], dayStats, RowsOrNone(roomHourlyData),
                       baselineAvgHourlyPattern)
                = getHistoricalValue(allFeatures[i], dayStats,
                                     RowsOrNone(roomHourlyData),
                                     baselineAvgHourlyPattern)

\* --------------------------------------------------------------- C13

RangeKeys == {"morning_events", "afternoon_events", "evening_events"}

\* events_per_hour is missing or shorter than 24.
NoHours(day) == Falsy(day.events_per_hour) \/ Len(day.events_per_hour.a) < 24

\* C13: a feature whose raw field or array is absent or undersized in the
\* record is extracted as null, not 0 (morning/afternoon/evening_events
\* without a 24-length events_per_hour, first_activity and last_activity
\* when unset), and it contributes no sample to the baseline.  (Stated for
\* the record and the baseline on display.)
C13_AbsentIsNull ==
    (Settled /\ dayStats # Null) =>
        /\ \A i \in DOMAIN allFeatures :
               LET feature == allFeatures[i]
               IN  /\ (feature.key \in RangeKeys /\ NoHours(dayStats))
                          => getTodayValue(feature) = Null
                   /\ (feature.isTime /\ Falsy(dayStats[feature.key]))
                          => getTodayValue(feature) = Null
        /\ LET history == DaysBetween(selectedDate - BaselineDays, selectedDate)
           IN  (baselineStats # Null
                    /\ \A d \in DOMAIN history : NoHours(history[d]))
                   => \A k \in DOMAIN baselineStats.f : k[2] \notin RangeKeys

\* The 24-length arrays of counts among the inputs.
IsDayArray(v) == v \notin InvalidArrays

\* The sum of a whole 24-length array, hour by hour.
RECURSIVE TotalFrom(_, _)
TotalFrom(v, h) ==
    IF h > 23 THEN 0 ELSE v.a[h + 1].n + TotalFrom(v, h + 1)

\* C14: for a 24-length array v of counts, sumEventsInRange(v, h, h) is v[h]
\* for every hour h, the 24 single-hour sums add up to sumEventsInRange(v, 0,
\* 23), which is the sum of the whole array, and a missing or shorter array
\* gives 0.
C14_SumEventsInRange ==
    Returned("sumEventsInRange") =>
        LET v == call.args[1]
            startHour == call.args[2]
            endHour == call.args[3]
        IN  IF ~IsDayArray(v) THEN call.out = I(0)
            ELSE /\ startHour = endHour => call.out = v.a[startHour + 1]
                 /\ (startHour = 0 /\ endHour = 23) =>
                        /\ call.out = I(TotalFrom(v, 0))
                        /\ call.out =
                             SeqSum([i \in 1 .. 24 |->
                                        sumEventsInRange(v, i - 1, i - 1)])

C14_Witness ==
    /\ Returned("sumEventsInRange")
    /\ IsDayArray(call.args[1])
    /\ call.args[2] = 0 /\ call.args[3] = 23
    /\ RLt(I(MaxCount), call.out)

\* A vector that is there and not all-zero.
NonZero(v) == v \notin {Null, Undefined} /\ \E i \in DOMAIN v.a : v.a[i] # I(0)

\* C15: cosineSimilarity(a, b) is 0 when a or b is missing or all-zero or
\* the lengths differ; otherwise it is within [0, 1], and it is 1 when a and
\* b are the same vector.
C15_CosineSimilarity ==
    Returned("cosineSimilarity") =>
        LET a == call.args[1]
            b == call.args[2]
        IN  IF ~NonZero(a) \/ ~NonZero(b) \/ Len(a.a) # Len(b.a)
            THEN call.out = I(0)
            ELSE /\ RLe(I(0), call.out) /\ RLe(call.out, I(1))
                 /\ a = b => call.out = I(1)

\* A list without two different elements: missing, empty, of one element or
\* of equal elements.
Degenerate(arr) ==
    \/ arr \in {Null, Undefined}
    \/ \A i, j \in DOMAIN arr.a : arr.a[i] = arr.a[j]

\* Sum of the k-th powers (k = 1, 2) of a list of integers.
RECURSIVE PowerSum(_, _, _)
PowerSum(arr, k, i) ==
    IF i > Len(arr.a) THEN 0
    ELSE (IF k = 1 THEN arr.a[i].n ELSE arr.a[i].n * arr.a[i].n)
         + PowerSum(arr, k, i + 1)

\* The population variance of a list of integers: E[x^2] - E[x]^2.
PopulationVariance(arr) ==
    LET n == Len(arr.a)
    IN  Num(n * PowerSum(arr, 2, 1) - PowerSum(arr, 1, 1) * PowerSum(arr, 1, 1),
            n * n)

MinuteOf(time) == CHOOSE k \in DOMAIN TimeTable : TimeTable[k] = time

\* max(0, minutes(last) - minutes(first)) of two time strings.
AwakeMinutes(first, last) ==
    IF MinuteOf(last) > MinuteOf(first)
    THEN I(MinuteOf(last) - MinuteOf(first))
    ELSE I(0)

\* C17 (as stated): awakeDuration is null when either argument is absent;
\* otherwise it is max(0, minutes(last) - minutes(first)), never negative,
\* so awakeDuration(t, t) = 0 for every time string t, "00:00" included.
C17_AwakeDuration ==
    Returned("awakeDuration") =>
        LET first == call.args[1]
            last == call.args[2]
        IN  IF first \in {Null, Undefined} \/ last \in {Null, Undefined}
            THEN call.out = Null
            ELSE call.out = AwakeMinutes(first, last)

\* C17 (amended): awakeDuration is null when either argument is absent and
\* when both are "00:00"; otherwise it is max(0, minutes(last) -
\* minutes(first)), never negative, so awakeDuration(t, t) = 0 for every
\* time string t other than "00:00".
C17_AwakeDurationButMidnight ==
    Returned("awakeDuration") =>
        LET first == call.args[1]
            last == call.args[2]
        IN  IF first \in {Null, Undefined} \/ last \in {Null, Undefined}
            THEN call.out = Null
            ELSE IF first = Time(0, 0) /\ last = Time(0, 0)
            THEN call.out = Null
            ELSE /\ call.out = AwakeMinutes(first, last)
                 /\ RLe(I(0), call.out)
                 /\ first = last => call.out = I(0)

C17_Witness ==
    /\ Returned("awakeDuration")
    /\ call.args[1] = Time(23, 59)
    /\ call.args[2] = Time(23, 59)
    /\ call.out = I(0)

\* The count of hour h of a 24-length array.
CountAt(v, h) == v.a[h + 1].n

\* The hours 5..11 with at least 2 events and an event in one of the next
\* two hours.
ClusterHours(v) ==
    { h \in 5 .. 11 :
        CountAt(v, h) >= 2 /\ (CountAt(v, h + 1) > 0 \/ CountAt(v, h + 2) > 0) }

\* The hours from 5 on with any event.
ActiveHours(v) == { h \in 5 .. 23 : CountAt(v, h) > 0 }

Earliest(hours) == CHOOSE h \in hours : \A g \in hours : h <= g

\* 3 events at hour 5 and 1 at hour 6.
ExampleDay == MarkedArr([h \in {5, 6} |-> IF h = 5 THEN 3 ELSE 1])

\* C18: for a 24-length array calculateDayStart returns 60 * h for the first
\* hour h in 5..11 with at least 2 events and a non-zero count in hour h + 1
\* or h + 2; without such an hour, 60 * h for the first hour h >= 5 with any
\* event; null when hours 5..23 are all zero or the array is missing or
\* shorter than 24; 3 events at hour 5 and 1 at hour 6 give 300.
C18_CalculateDayStart ==
    Returned("calculateDayStart") =>
        LET v == call.args[1]
        IN  /\ IF ~IsDayArray(v) THEN call.out = Null
               ELSE IF ClusterHours(v) # {}
               THEN call.out = I(60 * Earliest(ClusterHours(v)))
               ELSE IF ActiveHours(v) # {}
               THEN call.out = I(60 * Earliest(ActiveHours(v)))
               ELSE call.out = Null
            /\ v = ExampleDay => call.out = I(300)

\* A day whose first active hour is not the hour returned: the cluster later
\* in the morning wins.
C18_Witness ==
    /\ Returned("calculateDayStart")
    /\ IsDayArray(call.args[1])
    /\ ClusterHours(call.args[1]) # {}
    /\ Earliest(ActiveHours(call.args[1])) < Earliest(ClusterHours(call.args[1]))
    /\ call.out = I(60 * Earliest(ClusterHours(call.args[1])))

\* The string c is two digits, a colon and two digits that read hh and mm.
IsHHMM(c, hh, mm) ==
    /\ Len(c) = 5
    /\ c[3] = ":"
    /\ \A i \in {1, 2, 4, 5} : IsDigit(c[i])
    /\ 10 * DigitVal(c[1]) + DigitVal(c[2]) = hh
    /\ 10 * DigitVal(c[4]) + DigitVal(c[5]) = mm

\* C19: for an integer m in 0..1439 formatMinutesToTime(m) is a zero-padded
\* HH:MM string with HH in 00..23 and MM in 00..59, and timeToMinutes of that
\* string is m again; formatMinutesToTime(null) is null.
C19_RoundTrip ==
    /\ Returned("formatMinutesToTime") =>
          LET minutes == call.args[1]
          IN  IF minutes \in {Null, Undefined} THEN call.out = Null
              ELSE /\ call.out.t = "chars"
                   /\ \E hh \in 0 .. 23, mm \in 0 .. 59 :
                         /\ IsHHMM(call.out.c, hh, mm)
                         /\ 60 * hh + mm = minutes.n
    /\ call.fn = "timeToMinutes" => call.out = call.minutes

C19_Witness ==
    /\ call.fn = "timeToMinutes"
    /\ call.args[1] = Time(23, 59)
    /\ call.out = I(1439)

\* No fetch is pending.
NoFetchPending == mounted /\ run.all = "idle" /\ earlier.all = "idle"

\* What loadBaselineStats stores for the date d.
BaselineFor(d) ==
    LET dailyData == DaysBetween(d - BaselineDays, d)
        roomByDate == RoomByDateOf(Arr(RoomsBetween(d - BaselineDays, d)))
    IN  IF Len(dailyData) = 0 THEN Null
        ELSE StatsOf(dailyData, roomByDate, AvgPatternOf(dailyData))

\* The date a baseline run in its second await asks the room rows up to is
\* the date it asked the daily records up to.
OneDate(r) == r.base = "wait_rooms" => r.before = r.date

\* C20: once no fetch is pending, the day record, the room rows and the
\* baseline in state are those of the selected date, whatever the order of
\* clicks and responses; and a baseline run uses one selected date for its
\* daily-record window and its room-row window.
C20_StateOfSelection ==
    /\ NoFetchPending =>
          /\ dayStats = QueryDay(selectedDate)
          /\ roomHourlyData = Arr(RoomsBetween(selectedDate, selectedDate + 1))
          /\ baselineStats = BaselineFor(selectedDate)
    /\ OneDate(run) /\ OneDate(earlier)

\* ---------------------------------------------------------------- C21

\* The per-date baseline room rows and the average pattern a load of the
\* date d computes: nothing when the window has no record.
RoomByDateFor(d) ==
    IF Len(DaysBetween(d - BaselineDays, d)) = 0 THEN Obj([x \in {} |-> << >>])
    ELSE RoomByDateOf(Arr(RoomsBetween(d - BaselineDays, d)))

PatternFor(d) ==
    IF Len(DaysBetween(d - BaselineDays, d)) = 0 THEN Null
    ELSE AvgPatternOf(DaysBetween(d - BaselineDays, d))

\* C21: once the load of a selection has ended, the day record, the room
\* rows of the day, the baseline statistics, the per-date baseline room rows
\* and the average hourly pattern are those of the selected date, or empty
\* when the selected date has none (an empty baseline window included).
C21_NothingOfPreviousSelection ==
    Settled =>
        /\ dayStats = QueryDay(selectedDate)
        /\ roomHourlyData = Arr(RoomsBetween(selectedDate, selectedDate + 1))
        /\ baselineStats = BaselineFor(selectedDate)
        /\ baselineRoomByDate = RoomByDateFor(selectedDate)
        /\ baselineAvgHourlyPattern = PatternFor(selectedDate)

\* ---------------------------------------------------------------- C22

\* C22: getHistoricalValue is a function of (feature, daily record, room
\* rows) alone: for every feature and record it returns, whatever average
\* hourly pattern the component holds, what it returns when the component
\* holds none.
C22_ExtractorOfArgumentsOnly ==
    \A i \in DOMAIN allFeatures, choice \in DayChoices \ {"none"} :
        LET day == DayRecord(choice, Today)
            roomData == Arr(DayRooms(choice, Today))
        IN  getHistoricalValue(allFeatures[i], day, roomData,
                               baselineAvgHourlyPattern)
              = getHistoricalValue(allFeatures[i], day, roomData, Null)

\* ---------------------------------------------------------------- C23

\* The value getHistoricalValue gives for the feature on the date d of the
\* window, with the room rows and the pattern the baseline load stored.
HistoricalOn(feature, d) ==
    LET rows == Prop(baselineRoomByDate, d)
    IN  getHistoricalValue(feature, QueryDay(d),
                           IF rows = Undefined THEN Arr(<< >>) ELSE rows,
                           baselineAvgHourlyPattern)

\* The dates of the window of the selected date with a record and a value of
\* the feature that is a number.
SurvivingDates(feature) ==
    { d \in Dates : /\ selectedDate - BaselineDays <= d /\ d < selectedDate
                    /\ db[d] # "none"
                    /\ IsNum(HistoricalOn(feature, d)) }

\* The sum of the feature's values over a set of dates.
RECURSIVE SumOn(_, _)
SumOn(feature, S) ==
    IF S = {} THEN I(0)
    ELSE LET d == CHOOSE x \in S : TRUE
         IN  RAdd(HistoricalOn(feature, d), SumOn(feature, S \ {d}))

RowsOfCall == IF ~Falsy(call.args[1]) THEN call.args[1].a ELSE << >>

HoursWithRows == { RowsOfCall[i].hour : i \in DOMAIN RowsOfCall }

HoursWithEvents ==
    { RowsOfCall[i].hour : i \in { k \in DOMAIN RowsOfCall :
                                      RowsOfCall[k].total_events > 0 } }

\* The rows of hour h with the highest total_events of that hour.
TopRows(h) ==
    { i \in DOMAIN RowsOfCall :
        /\ RowsOfCall[i].hour = h
        /\ \A k \in DOMAIN RowsOfCall :
              RowsOfCall[k].hour = h
                  => RowsOfCall[k].total_events <= RowsOfCall[i].total_events }

\* The dominant room of hour h; of rows with equal events the one that
\* comes first in the table.
DominantRoom(h) ==
    RowsOfCall[CHOOSE i \in TopRows(h) : \A k \in TopRows(h) : i <= k].room_name

\* The pairs of hours of H with no hour of H between them whose dominant
\* rooms differ.
Changes(H) ==
    { p \in H \X H :
        /\ HourBefore(p[1], p[2])
        /\ ~ \E m \in H : HourBefore(p[1], m) /\ HourBefore(m, p[2])
        /\ DominantRoom(p[1]) # DominantRoom(p[2]) }

UniqueTops == \A h \in HoursWithRows : Cardinality(TopRows(h)) = 1

\* C24 as stated: transition_count is the number of changes of the dominant
\* room between consecutive hours that have rows, at most the number of
\* such hours less one, and null when there are no rows.
C24_TransitionCount ==
    Returned("computeTransitionCount") =>
        IF RowsOfCall = << >> THEN call.out = Null
        ELSE /\ IsNum(call.out)
             /\ RLe(call.out, I(Cardinality(HoursWithRows) - 1))
             /\ UniqueTops => call.out = I(Cardinality(Changes(HoursWithRows)))

\* C24: transition_count is the number of changes of the dominant room
\* between consecutive hours in which some row has events; hours without
\* rows and hours whose rows have no events add no entry; the count is
\* at most the number of distinct hours with rows less one (zero when no
\* hour has events), and the result is null when there are no rows.
C24_TransitionCountOfEventfulHours ==
    Returned("computeTransitionCount") =>
        IF RowsOfCall = << >> THEN call.out = Null
        ELSE /\ call.out = I(Cardinality(Changes(HoursWithEvents)))
             /\ RLe(call.out, I(Cardinality(HoursWithRows) - 1))

C24_Witness ==
    /\ Returned("computeTransitionCount")
    /\ Cardinality(HoursWithRows) = 3
    /\ Cardinality(HoursWithEvents) = 2
    /\ call.out = I(1)

\* ---- C25

\* The ids a list of a ticket holds.
Ids(s) == { s[i] : i \in DOMAIN s }

DuplicateFree(s) == \A p, q \in DOMAIN s : s[p] = s[q] => p = q

\* C25: after any sequence of addDependency and removeDependency calls on
\* tickets of the store, a ticket lists another in dependsOn exactly when the
\* other lists it in blockedBy, and no list holds an id twice.
C25_MirrorSymmetric ==
    /\ \A i, j \in DOMAIN tickets :
          tickets[j].id \in Ids(tickets[i].dependsOn)
              <=> tickets[i].id \in Ids(tickets[j].blockedBy)
    /\ \A i \in DOMAIN tickets :
          /\ DuplicateFree(tickets[i].dependsOn)
          /\ DuplicateFree(tickets[i].blockedBy)

C25_Witness ==
    \E i, j \in DOMAIN tickets :
        /\ i # j
        /\ Len(tickets[i].dependsOn) = 2
        /\ tickets[i].id \in Ids(tickets[i].blockedBy)
        /\ tickets[i].id \in Ids(tickets[j].blockedBy)
        /\ tickets[j].dependsOn = << >>

\* ---- C27

\* The tickets can be put in an order in which each comes after all the
\* tickets it depends on.
Acyclic ==
    \E pos \in [DOMAIN tickets -> DOMAIN tickets] :
        \A i, j \in DOMAIN tickets :
            tickets[j].id \in Ids(tickets[i].dependsOn) => pos[j] < pos[i]

\* C27: the chain getTicketChain(t) returned holds each ticket at most once
\* with t last, and when no ticket depends on itself through others, every
\* ticket of the chain comes after all the tickets it depends on.
C27_ChainInDependencyOrder ==
    chain # Null =>
        /\ DuplicateFree(chain.ids)
        /\ chain.ids[Len(chain.ids)] = chain.of
        /\ Acyclic =>
              \A p \in DOMAIN chain.ids :
                  \A d \in Ids(tickets[FindIndex(chain.ids[p])].dependsOn) :
                      \E q \in 1 .. (p - 1) : chain.ids[q] = d

\* ---- C26

\* C26: after any sequence of addTicket, addDependency, removeDependency and
\* deleteTicket calls, every id held in a dependsOn or blockedBy list is the
\* id of a ticket of the store.
C26_NoDanglingReference ==
    \A i \in DOMAIN tickets :
        Ids(tickets[i].dependsOn) \cup Ids(tickets[i].blockedBy)
            \subseteq { tickets[k].id : k \in DOMAIN tickets }

\* ---- C28

\* The rows the tickets table holds when it agrees with the store.
RowsOfStore ==
    { [id |-> UuidOf(tickets[i].id),
       status |-> tickets[i].status,
       depends_on |-> mapLocalIdsToUuids(tickets[i].dependsOn),
       blocked_by |-> mapLocalIdsToUuids(tickets[i].blockedBy)] :
          i \in DOMAIN tickets }

\* C28: when no request fails and none is pending any more, the server's
\* tickets table holds the tickets of the store, whatever the order of the
\* calls and the responses was.
C28_RemoteEqualsLocal ==
    requests = << >> => remote.tickets = RowsOfStore

\* ---- C29

\* C29: once importData has returned, initialData is what it was before the
\* call, after a successful import and after a seeding that failed part-way;
\* and when importData returned false, the project stored before the call
\* has not been deleted.
C29_ImportLeavesPlanAndProject ==
    (job.fn = "importData" /\ job.out \in {"true", "false"}) =>
        /\ initialData = job.before
        /\ (job.out = "false" /\ job.project # Null)
              => job.project \in remote.projects

\* ---- C30

\* A loadAllData call one of whose three fetches is not answered yet.
FetchInFlight(r) ==
    r.all = "running" /\ (r.day # "done" \/ r.room # "done" \/ r.base # "done")

\* C30: loading is true whenever a loadAllData call still has a fetch in
\* flight; with two overlapping calls the end of the first does not set
\* loading to false while the second is pending.
C30_LoadingWhileFetching ==
    (FetchInFlight(run) \/ FetchInFlight(earlier)) => loading

================================================================
